---- MODULE Spec2Model ----
(***************************************************************************)
(* Model of src/local_ai.py: the validating proxy in front of LM Studio.   *)
(* One behaviour of Spec is one process started by main() under one        *)
(* ProxyConfig: either the server handling one inbound HTTP request        *)
(* (do_GET / do_POST, or a method ProxyHandler does not define), or one    *)
(* pipe-mode run of handle_stdin; both share the validator and the retry   *)
(* loop of call_lm_studio, one loop iteration per step.  SpecValidate      *)
(* applies validate_chat_request to request objects drawn from a grid of   *)
(* field values.                                                           *)
(*                                                                         *)
(* Python values are tagged records [t, v].  Floats are kept in tenths     *)
(* (JFloat(7) is 0.7).  Byte strings are kept by the attributes the code   *)
(* inspects: emptiness, UTF-8 validity, JSON well-formedness, the JSON     *)
(* value they denote, and whether they are spelled as json.dumps spells    *)
(* that value.  Wall-clock time (the "ts" log field, the length of  *)
(* a sleep) is not modelled here.                                          *)
(***************************************************************************)
EXTENDS Integers, Sequences, FiniteSets, TLC

\* ------------------------------------------------------------------ bounds
\* config.retries ranges over -NegRetries..MaxRetries.
MaxRetries == 2
\* longest `messages` list of the validator grid
MaxMessages == 3
NegRetries == 2

\* ------------------------------------------------------- program constants
MAX_TOKENS_LIMIT == 8192
\* TEMPERATURE_MIN / TEMPERATURE_MAX in tenths
TEMPERATURE_MIN == 0
TEMPERATURE_MAX == 20
\* max_bytes of handle_stdin (10 MiB) and the size of one stdin read
MAX_STDIN_BYTES == 10485760
READ_CHUNK == 8192
VALID_ROLES == {"system", "user", "assistant", "function", "tool"}
\* str(sorted(VALID_ROLES))
SortedRolesText == "['assistant', 'function', 'system', 'tool', 'user']"

\* ------------------------------------------------------------ python values
JNull == [t |-> "null", v |-> 0]
JStr(s) == [t |-> "str", v |-> s]
JInt(n) == [t |-> "int", v |-> n]
JFloat(tenths) == [t |-> "float", v |-> tenths]
JBool(b) == [t |-> "bool", v |-> b]
JList(q) == [t |-> "list", v |-> q]
JDict(f) == [t |-> "dict", v |-> f]

\* isinstance(x, int): bool is a subclass of int
IsInt(x) == x.t \in {"int", "bool"}
\* isinstance(x, (int, float))
IsNumber(x) == x.t \in {"int", "bool", "float"}
\* numeric value of a number, in tenths
Tenths(x) == CASE x.t = "int" -> 10 * x.v
               [] x.t = "bool" -> (IF x.v THEN 10 ELSE 0)
               [] x.t = "float" -> x.v
               [] OTHER -> 0
\* integer value of an int or bool
IntVal(x) == CASE x.t = "int" -> x.v
               [] x.t = "bool" -> (IF x.v THEN 1 ELSE 0)
               [] OTHER -> 0
\* dict.get(key): None when the key is absent
Get(d, key) == IF key \in DOMAIN d THEN d[key] ELSE JNull
\* Python truthiness of the values that reach an `or`
TruthyNotNone(x) == TRUE
Truthy(x) == CASE x.t = "null" -> FALSE
               [] x.t = "str" -> x.v # ""
               [] x.t = "int" -> x.v # 0
               [] x.t = "float" -> x.v # 0
               [] x.t = "bool" -> x.v
               [] x.t = "list" -> Len(x.v) > 0
               [] OTHER -> TRUE

\* ------------------------------------------------------------- byte strings
\* A byte string, by what parse_json_bytes looks at; `dumped` tells the
\* bytes json.dumps(value) writes from every other spelling of the same value
\* (other spacing, escapes, number forms, repeated keys).
Bytes(empty, utf8, wellformed, value, dumped) ==
    [empty |-> empty, utf8 |-> utf8, wellformed |-> wellformed, value |-> value,
     dumped |-> dumped]
EmptyBytes == Bytes(TRUE, TRUE, FALSE, JNull, FALSE)
UndecodableBytes == Bytes(FALSE, FALSE, FALSE, JNull, FALSE)
MalformedBytes == Bytes(FALSE, TRUE, FALSE, JNull, FALSE)
\* json.dumps(value).encode("utf-8")
JsonBytes(value) == Bytes(FALSE, TRUE, TRUE, value, TRUE)
\* some other spelling of the JSON value
OtherJsonBytes(value) == Bytes(FALSE, TRUE, TRUE, value, FALSE)

\* ------------------------------------------------------- results of a call
Ok(val) == [ok |-> TRUE, exc |-> "", msg |-> "", val |-> val]
Raise(exc, msg) == [ok |-> FALSE, exc |-> exc, msg |-> msg, val |-> JNull]

\* issubclass(exc, cls) for the exception classes that occur
IsSubclass(exc, cls) ==
    \/ exc = cls
    \/ exc = "ValidationError" /\ cls = "ValueError"
    \/ exc = "UnicodeDecodeError" /\ cls = "ValueError"
    \/ exc = "RemoteDisconnected" /\ cls \in {"ConnectionResetError", "ConnectionError", "OSError"}
    \/ exc = "ConnectionError" /\ cls = "OSError"
    \/ exc = "TimeoutError" /\ cls = "OSError"
    \/ exc = "HTTPError" /\ cls \in {"URLError", "OSError"}
    \/ exc = "URLError" /\ cls = "OSError"

parse_json_bytes_any_root(raw) ==
    IF raw.empty THEN Raise("ValidationError", "Empty request body")
    ELSE IF ~raw.utf8 THEN Raise("UnicodeDecodeError", "'utf-8' codec can't decode byte")
    ELSE IF ~raw.wellformed THEN Raise("ValidationError", "Invalid JSON: Expecting value")
    ELSE Ok(raw.value)

parse_json_bytes(raw) ==
    IF raw.empty THEN Raise("ValidationError", "Empty request body")
    ELSE IF ~raw.utf8 THEN Raise("UnicodeDecodeError", "'utf-8' codec can't decode byte")
    ELSE IF ~raw.wellformed THEN Raise("ValidationError", "Invalid JSON: Expecting value")
    ELSE IF raw.value.t # "dict" THEN Raise("ValidationError", "JSON root must be an object")
    ELSE Ok(raw.value)

\* ---------------------------------------------------------------- validator
\* Error text of validate_messages for element `message` at 0-based `idx`,
\* "" when the element is accepted.
MessageError(message, idx) ==
    LET at == "messages[" \o ToString(idx) \o "]"
        role == Get(message.v, "role")
        content == Get(message.v, "content")
    IN  IF message.t # "dict" THEN at \o " must be an object"
        ELSE IF role.t # "str" \/ role.v = "" THEN at \o ".role must be a non-empty string"
        ELSE IF role.v \notin VALID_ROLES
             THEN at \o ".role must be one of " \o SortedRolesText \o ", got '" \o role.v \o "'"
        ELSE IF content.t # "str" \/ content.v = "" THEN at \o ".content must be a non-empty string"
        ELSE ""

\* normalized.append({"role": role, "content": content})
NormalizedMessageRoleOnly(message) == JDict([role |-> Get(message.v, "role")])
NormalizedMessage(message) ==
    JDict([role |-> Get(message.v, "role"), content |-> Get(message.v, "content")])

validate_messages_allow_empty(messages) ==
    IF messages.t # "list"
    THEN Raise("ValidationError", "messages must be a non-empty array")
    ELSE LET bad == {i \in 1..Len(messages.v) : MessageError(messages.v[i], i - 1) # ""}
         IN  IF bad # {}
             THEN LET first == CHOOSE i \in bad : \A j \in bad : i <= j
                  IN  Raise("ValidationError", MessageError(messages.v[first], first - 1))
             ELSE Ok(JList([i \in 1..Len(messages.v) |-> NormalizedMessage(messages.v[i])]))

validate_messages_last_bad(messages) ==
    IF messages.t # "list" \/ Len(messages.v) = 0
    THEN Raise("ValidationError", "messages must be a non-empty array")
    ELSE LET bad == {i \in 1..Len(messages.v) : MessageError(messages.v[i], i - 1) # ""}
         IN  IF bad # {}
             THEN LET last == CHOOSE i \in bad : \A j \in bad : i >= j
                  IN  Raise("ValidationError", MessageError(messages.v[last], last - 1))
             ELSE Ok(JList([i \in 1..Len(messages.v) |-> NormalizedMessage(messages.v[i])]))

validate_messages(messages) ==
    IF messages.t # "list" \/ Len(messages.v) = 0
    THEN Raise("ValidationError", "messages must be a non-empty array")
    ELSE LET bad == {i \in 1..Len(messages.v) : MessageError(messages.v[i], i - 1) # ""}
         IN  IF bad # {}
             THEN LET first == CHOOSE i \in bad : \A j \in bad : i <= j
                  IN  Raise("ValidationError", MessageError(messages.v[first], first - 1))
             ELSE Ok(JList([i \in 1..Len(messages.v) |-> NormalizedMessage(messages.v[i])]))

validate_chat_request_exclusive(payload) ==
    LET messages == validate_messages(Get(payload.v, "messages"))
        model == Get(payload.v, "model")
        max_tokens == Get(payload.v, "max_tokens")
        temperature == Get(payload.v, "temperature")
        top_p == Get(payload.v, "top_p")
        stream == Get(payload.v, "stream")
    IN  IF ~messages.ok THEN messages
        ELSE IF model.t # "null" /\ model.t # "str"
             THEN Raise("ValidationError", "model must be a string")
        ELSE IF max_tokens.t # "null"
                /\ (~IsInt(max_tokens) \/ IntVal(max_tokens) <= 0
                    \/ IntVal(max_tokens) >= MAX_TOKENS_LIMIT)
             THEN Raise("ValidationError", "max_tokens must be a positive integer <= 8192")
        ELSE IF temperature.t # "null"
                /\ (~IsNumber(temperature)
                    \/ ~(TEMPERATURE_MIN <= Tenths(temperature)
                         /\ Tenths(temperature) < TEMPERATURE_MAX))
             THEN Raise("ValidationError", "temperature must be between 0.0 and 2.0")
        ELSE IF top_p.t # "null"
                /\ (~IsNumber(top_p) \/ ~(0 <= Tenths(top_p) /\ Tenths(top_p) <= 10))
             THEN Raise("ValidationError", "top_p must be between 0 and 1")
        ELSE IF stream.t # "null" /\ stream.t # "bool"
             THEN Raise("ValidationError", "stream must be a boolean")
        ELSE Ok(JDict([model |-> IF Truthy(model) THEN model ELSE JStr("local-model"),
                       messages |-> messages.val,
                       max_tokens |-> IF Truthy(max_tokens) THEN max_tokens ELSE JInt(512),
                       temperature |-> IF temperature.t # "null" THEN temperature ELSE JFloat(7),
                       top_p |-> IF top_p.t # "null" THEN top_p ELSE JInt(1),
                       stream |-> IF stream.t # "null" THEN stream ELSE JBool(FALSE)]))

validate_chat_request(payload) ==
    LET messages == validate_messages(Get(payload.v, "messages"))
        model == Get(payload.v, "model")
        max_tokens == Get(payload.v, "max_tokens")
        temperature == Get(payload.v, "temperature")
        top_p == Get(payload.v, "top_p")
        stream == Get(payload.v, "stream")
    IN  IF ~messages.ok THEN messages
        ELSE IF model.t # "null" /\ model.t # "str"
             THEN Raise("ValidationError", "model must be a string")
        ELSE IF max_tokens.t # "null"
                /\ (~IsInt(max_tokens) \/ IntVal(max_tokens) <= 0
                    \/ IntVal(max_tokens) > MAX_TOKENS_LIMIT)
             THEN Raise("ValidationError", "max_tokens must be a positive integer <= 8192")
        ELSE IF temperature.t # "null"
                /\ (~IsNumber(temperature)
                    \/ ~(TEMPERATURE_MIN <= Tenths(temperature)
                         /\ Tenths(temperature) <= TEMPERATURE_MAX))
             THEN Raise("ValidationError", "temperature must be between 0.0 and 2.0")
        ELSE IF top_p.t # "null"
                /\ (~IsNumber(top_p) \/ ~(0 <= Tenths(top_p) /\ Tenths(top_p) <= 10))
             THEN Raise("ValidationError", "top_p must be between 0 and 1")
        ELSE IF stream.t # "null" /\ stream.t # "bool"
             THEN Raise("ValidationError", "stream must be a boolean")
        ELSE Ok(JDict([model |-> IF Truthy(model) THEN model ELSE JStr("local-model"),
                       messages |-> messages.val,
                       max_tokens |-> IF Truthy(max_tokens) THEN max_tokens ELSE JInt(512),
                       temperature |-> IF temperature.t # "null" THEN temperature ELSE JFloat(7),
                       top_p |-> IF top_p.t # "null" THEN top_p ELSE JInt(1),
                       stream |-> IF stream.t # "null" THEN stream ELSE JBool(FALSE)]))

\* {"role": ..., "content_length": len(content)} for each message that is a dict
RedactedMessageVerbatim(msg) ==
    [role |-> IF "role" \in DOMAIN msg.v THEN msg.v["role"] ELSE JStr(""),
     content_length |-> IF "content" \in DOMAIN msg.v THEN msg.v["content"] ELSE JStr("")]

RedactedMessage(msg) ==
    [role |-> IF "role" \in DOMAIN msg.v THEN msg.v["role"] ELSE JStr(""),
     content_length |->
         JInt(Len((IF "content" \in DOMAIN msg.v THEN msg.v["content"] ELSE JStr("")).v))]

redact_for_logs(payload) ==
    LET messages == IF "messages" \in DOMAIN payload.v THEN payload.v["messages"] ELSE JList(<<>>)
    IN  [model |-> Get(payload.v, "model"),
         messages |-> LET dicts == SelectSeq(messages.v, LAMBDA m : m.t = "dict")
                      IN  [i \in 1..Len(dicts) |-> RedactedMessage(dicts[i])],
         max_tokens |-> Get(payload.v, "max_tokens"),
         temperature |-> Get(payload.v, "temperature"),
         top_p |-> Get(payload.v, "top_p"),
         stream |-> Get(payload.v, "stream")]

\* ------------------------------------------------------------------ logging
\* log_json(level, event, **fields): one record per call, None fields dropped.
\* `fields` is a function from field names to tagged values.
log_json(level, event, fields) ==
    [level |-> level, event |-> event,
     fields |-> [k \in {f \in DOMAIN fields : fields[f] # JNull} |-> fields[k]]]

\* ------------------------------------------------------------ build_request
\* config.lm_studio_base.rstrip("/")
Rstrip(base) == base.stem
\* the headers dict of build_request
HeadersAlwaysAuthorized(api_key) ==
    ("Content-Type" :> "application/json")
    @@ ("Authorization" :> ("Bearer " \o (IF api_key.t = "str" THEN api_key.v ELSE "None")))
Headers(api_key) ==
    IF Truthy(api_key)
    THEN ("Content-Type" :> "application/json") @@ ("Authorization" :> ("Bearer " \o api_key.v))
    ELSE ("Content-Type" :> "application/json")

build_request(cfg, payload) ==
    [method |-> "POST",
     url |-> Rstrip(cfg.lm_studio_base) \o "/v1/chat/completions",
     headers |-> Headers(cfg.api_key),
     body |-> JsonBytes(payload)]

\* `request = build_request(config, payload)` in the loop body: the Request
\* just constructed is an object of its own, told from the `made` before it.
ReusedRequest(made, req) == [object |-> 1] @@ req
NewRequest(made, req) == [object |-> Len(made) + 1] @@ req

\* ----------------------------------------------------------- the twin run
\* The twin of a run receives the same request except that every message
\* content is another text of the same length, and meets the same upstream
\* outcomes.
TwinText(content) ==
    CASE content = "Hello" -> "World"
      [] content = "Be brief" -> "Go ahead"
      [] content = "x" -> "y"
      [] OTHER -> content
TwinMessage(message) ==
    IF message.t = "dict" /\ Get(message.v, "content").t = "str"
    THEN JDict([message.v EXCEPT !["content"] = JStr(TwinText(@.v))])
    ELSE message
TwinPayload(payload) ==
    IF payload.t = "dict" /\ Get(payload.v, "messages").t = "list"
    THEN JDict([payload.v EXCEPT
                   !["messages"] = JList([i \in 1..Len(@.v) |-> TwinMessage(@.v[i])])])
    ELSE payload
TwinBytes(raw) == [raw EXCEPT !.value = TwinPayload(@)]

\* The records do_POST ("proxy") and handle_stdin ("stdin") log between
\* reading the request and calling call_lm_studio, given how parsing and
\* validation ended.
IngressLogs(ingress, context, checked) ==
    IF checked.ok
    THEN <<log_json("info", ingress \o ".request",
                    context @@ [payload |-> JDict(redact_for_logs(checked.val))])>>
    ELSE IF IsSubclass(checked.exc, "ValidationError")
    THEN <<log_json("warn", ingress \o ".validation_error", [error |-> JStr(checked.msg)])>>
    ELSE <<>>

\* --------------------------------------------------------------- the inputs
\* ProxyConfig.retries as parse_args accepts it: any integer, negative included.
\* lm_studio_base is kept as the text before its trailing slashes and the
\* number of those slashes, so that rstrip("/") can be computed.
BaseUrl(stem, slashes) == [stem |-> stem, slashes |-> slashes]
DEFAULT_LM_STUDIO_BASE == BaseUrl("http://localhost:1234", 0)
DEFAULT_LISTEN_HOST == "127.0.0.1"
DEFAULT_LISTEN_PORT == 8081
DEFAULT_TIMEOUT_S == 30
DEFAULT_RETRIES == 2
\* where the upstream is and the credential for it
Upstreams ==
    { [lm_studio_base |-> DEFAULT_LM_STUDIO_BASE, api_key |-> JNull],
      [lm_studio_base |-> BaseUrl("http://lm.local:1234", 1), api_key |-> JStr("sk-local")] }
ProxyConfig(listen_host, listen_port, lm_studio_base, timeout_s, retries, api_key) ==
    [listen_host |-> listen_host, listen_port |-> listen_port,
     lm_studio_base |-> lm_studio_base, timeout_s |-> timeout_s, retries |-> retries,
     api_key |-> api_key]
Configs ==
    {ProxyConfig(DEFAULT_LISTEN_HOST, DEFAULT_LISTEN_PORT, u.lm_studio_base, DEFAULT_TIMEOUT_S,
                 r, u.api_key) :
        u \in Upstreams, r \in (0 - NegRetries)..MaxRetries}

UserHello == JDict([role |-> JStr("user"), content |-> JStr("Hello")])
SystemMsg == JDict([role |-> JStr("system"), content |-> JStr("Be brief")])
RobotMsg == JDict([role |-> JStr("robot"), content |-> JStr("x")])

\* Decoded request bodies that are JSON objects.
ValidPayloads ==
    { JDict([messages |-> JList(<<UserHello>>)]),
      JDict([messages |-> JList(<<SystemMsg, UserHello>>), model |-> JStr("m1"),
             max_tokens |-> JInt(8192), temperature |-> JInt(2), top_p |-> JFloat(5),
             stream |-> JBool(TRUE)]) }
InvalidPayloads ==
    { JDict(<<>>),
      JDict([messages |-> JList(<<>>)]),
      JDict([messages |-> JList(<<UserHello, RobotMsg>>)]),
      JDict([messages |-> JList(<<UserHello>>), model |-> JInt(7)]),
      JDict([messages |-> JList(<<UserHello>>), max_tokens |-> JInt(0)]),
      JDict([messages |-> JList(<<UserHello>>), temperature |-> JFloat(21)]),
      JDict([messages |-> JList(<<UserHello>>), top_p |-> JInt(2)]),
      JDict([messages |-> JList(<<UserHello>>), stream |-> JStr("yes")]) }

RequestBodies ==
    {EmptyBytes, UndecodableBytes, MalformedBytes, JsonBytes(JList(<<>>))}
    \cup {JsonBytes(p) : p \in ValidPayloads \cup InvalidPayloads}

\* ---- the grid of request objects validate_chat_request is applied to
\* a key the request object does not have
Absent == [t |-> "absent", v |-> 0]
\* the JSON object with the keys of `fields` that are not Absent
RequestObject(fields) ==
    JDict([k \in {f \in DOMAIN fields : fields[f] # Absent} |-> fields[k]])

\* elements of `messages`: two valid ones and one for each way to be invalid
MessageElements ==
    { UserHello, SystemMsg, RobotMsg,
      JDict([role |-> JStr("tool"), content |-> JStr("42"), name |-> JStr("calc")]),
      JStr("user"),
      JDict(<<>>),
      JDict([role |-> JInt(5), content |-> JStr("x")]),
      JDict([role |-> JStr(""), content |-> JStr("x")]),
      JDict([role |-> JStr("robot"), content |-> JStr("")]),
      JDict([role |-> JStr("user")]),
      JDict([role |-> JStr("tool"), content |-> JStr("")]),
      JDict([role |-> JStr("assistant"), content |-> JInt(3)]) }
MessageLists ==
    {JList(q) : q \in UNION {[1..n -> MessageElements] : n \in 1..MaxMessages}}
\* `messages` that is missing, null, not a list, or an empty list
NoMessages == {Absent, JNull, JStr("hi"), JList(<<>>)}
GoodMessages == {JList(<<UserHello>>)}

ModelChoices == {Absent, JNull, JStr("m1"), JStr(""), JInt(7)}
MaxTokensChoices ==
    {Absent, JInt(1), JInt(8192), JInt(0), JInt(8193), JInt(0 - 1), JBool(TRUE), JFloat(15)}
TemperatureChoices ==
    {Absent, JNull, JInt(0), JFloat(7), JInt(2), JFloat(21), JFloat(0 - 1), JStr("hot")}
TopPChoices == {Absent, JInt(0), JFloat(5), JFloat(11), JStr("1")}
StreamChoices == {Absent, JBool(TRUE), JBool(FALSE), JInt(1)}

OtherFields ==
    [model : ModelChoices, max_tokens : MaxTokensChoices, temperature : TemperatureChoices,
     top_p : TopPChoices, stream : StreamChoices]
\* no other field, every other field valid, one other field invalid
FewOtherFields ==
    { [model |-> Absent, max_tokens |-> Absent, temperature |-> Absent, top_p |-> Absent,
       stream |-> Absent],
      [model |-> JStr("m1"), max_tokens |-> JInt(1), temperature |-> JInt(0),
       top_p |-> JFloat(5), stream |-> JBool(TRUE)],
      [model |-> JInt(7), max_tokens |-> Absent, temperature |-> Absent, top_p |-> Absent,
       stream |-> Absent] }
WithMessages(messages, o) ==
    RequestObject([messages |-> messages, model |-> o.model, max_tokens |-> o.max_tokens,
                   temperature |-> o.temperature, top_p |-> o.top_p, stream |-> o.stream])
ValidatorInputs ==
    {WithMessages(m, o) : m \in NoMessages \cup GoodMessages, o \in OtherFields}
    \cup {WithMessages(m, o) : m \in MessageLists, o \in FewOtherFields}

\* The Content-Length header: absent, the body's length, or not a number.
ContentLengths == {"absent", "exact", "abc"}

HttpRequests ==
    [method : {"GET", "POST", "PUT", "DELETE"}, path : {"/health", "/v1/chat/completions", "/other"},
     content_length : ContentLengths, body : RequestBodies]

\* What the process finds on standard input: `size` bytes, denoting `data`.
StdinInputs ==
    {[size |-> 0, data |-> EmptyBytes]}
    \cup [size : {64, MAX_STDIN_BYTES, MAX_STDIN_BYTES + 1, 2 * MAX_STDIN_BYTES},
          data : RequestBodies \ {EmptyBytes}]

\* What one urlopen(...) / response.read() of call_lm_studio can do.
SuccessStatuses == {200, 201}
ErrorStatuses == {404, 499, 500, 503, 599, 600}
UpstreamBodies ==
    {EmptyBytes, UndecodableBytes, MalformedBytes, JsonBytes(JList(<<>>)),
     JsonBytes(JDict(<<>>)), JsonBytes(JDict([ok |-> JBool(TRUE)])),
     OtherJsonBytes(JDict([ok |-> JBool(TRUE)]))}
Outcome(kind, code, reason, body) == [kind |-> kind, code |-> code, reason |-> reason, body |-> body]
UpstreamOutcomes ==
    {Outcome("response", c, "", b) : c \in SuccessStatuses, b \in UpstreamBodies}
    \cup {Outcome("http_error", c, "", EmptyBytes) : c \in ErrorStatuses}
    \cup {Outcome("url_error", 0, r, EmptyBytes) :
            r \in {"[Errno 111] Connection refused", "[Errno -2] Name or service not known", "timed out"}}
    \cup {Outcome("read_timeout", 0, "timed out", EmptyBytes),
          Outcome("remote_disconnected", 0, "Remote end closed connection without response", EmptyBytes)}

\* ------------------------------------------------------------------- state
VARIABLES
    config,      \* the ProxyConfig of the server (frozen dataclass)
    request,     \* the inbound HTTP request being handled
    pc,          \* "idle" | "calling" (in the retry loop) | "break" (left the loop) | "done"
    validated,   \* the validated ChatRequest handed to call_lm_studio
    attempt,     \* loop variable of call_lm_studio
    last_error,  \* last_error of call_lm_studio (JNull is None)
    calls,       \* the urlopen calls made so far, by their outcome
    sleeps,      \* the arguments of the retry_backoff calls made so far
    result,      \* how call_lm_studio ended
    response,    \* what _send_json wrote to the client
    logs,        \* the records log_json emitted
    escaped,     \* the exception that left do_GET / do_POST / handle_stdin unhandled
    mode,        \* args.stdin of main(): "server" | "stdin"; "check" in SpecValidate
    stdin,       \* the bytes on standard input (pipe mode)
    stdout,      \* the sys.stdout.write calls made so far (pipe mode)
    sent,        \* the Request objects handed to urlopen, one per attempt
    delays,      \* the arguments of the time.sleep calls made so far, in milliseconds
    trace,       \* what the handler did, in order: "log <event>", "urlopen", "send", "write"
    stderr,      \* the stream log_json writes to: "open" | "full" (a write raises OSError)
    twin_logs,   \* the log records of the twin run (see Twin)
    backlog,     \* the requests that reached the listening socket, in order of arrival
    served,      \* what became of each request whose handler has returned
    exit_code,   \* the value handle_stdin returned, NotReturned before that
    fn,          \* the pure function applied (SpecValidate)
    arg,         \* its argument
    ret          \* its result

vars == <<config, request, pc, validated, attempt, last_error, calls, sleeps,
          result, response, logs, escaped, mode, stdin, stdout, exit_code,
          sent, delays, trace, stderr, twin_logs, backlog, served, fn, arg, ret>>
\* what main() fixes before any request is handled
environment == <<config, mode, stderr>>
\* everything a handler and its call_lm_studio write
handler == <<request, pc, validated, attempt, last_error, calls, sleeps, delays, result,
             response, logs, escaped, stdin, stdout, exit_code, sent, trace, twin_logs>>
\* the part of the state that neither do_POST nor handle_stdin moves
harness == <<backlog, served, fn, arg, ret>>

NoRequest == [method |-> "", path |-> "", content_length |-> "absent", body |-> EmptyBytes]
NoResponse == [status |-> 0, body |-> EmptyBytes]
NoException == [exc |-> "", msg |-> ""]
NoStdin == [size |-> 0, data |-> EmptyBytes]
NotReturned == 0 - 1
NotCalled == [ok |-> FALSE, exc |-> "", msg |-> "", val |-> JNull]
Pending == [kind |-> "pending", exc |-> "", msg |-> "", status |-> 0, data |-> JNull]
ReturnedOk(status, data) == [kind |-> "return", exc |-> "", msg |-> "", status |-> 200, data |-> data]
Returned(status, data) == [kind |-> "return", exc |-> "", msg |-> "", status |-> status, data |-> data]
Raised(exc, msg) == [kind |-> "raise", exc |-> exc, msg |-> msg, status |-> 0, data |-> JNull]

\* Nothing has been received, called or written yet.
Fresh ==
    /\ request = NoRequest
    /\ pc = "idle"
    /\ validated = JNull
    /\ attempt = 0
    /\ last_error = JNull
    /\ calls = <<>>
    /\ sleeps = <<>>
    /\ result = Pending
    /\ response = NoResponse
    /\ logs = <<>>
    /\ escaped = NoException
    /\ stdin = NoStdin
    /\ stdout = <<>>
    /\ exit_code = NotReturned
    /\ backlog = <<>>
    /\ served = <<>>
    /\ sent = <<>>
    /\ delays = <<>>
    /\ trace = <<>>
    /\ twin_logs = <<>>

Init ==
    /\ config \in Configs
    /\ mode \in {"server", "stdin"}
    /\ stderr = "open"
    /\ Fresh
    /\ fn = ""
    /\ arg = JNull
    /\ ret = NotCalled

\* A local variable of call_lm_studio starts from its initialiser in every
\* call, whatever value the call before left in it.
RetainedAcrossCalls(previous, initial) == previous
LocalOfCall(previous, initial) == initial

\* ------------------------------------------- what a handler has done so far
\* The outputs of the handler that is running: the log records, the HTTP
\* response, the lines on stdout, the exit status, the exception that left
\* it, and the order in which it logged, called urlopen and answered.
Now ==
    [logs |-> logs, response |-> response, stdout |-> stdout, exit_code |-> exit_code,
     escaped |-> escaped, trace |-> trace]
Commit(e) ==
    /\ logs' = e.logs
    /\ response' = e.response
    /\ stdout' = e.stdout
    /\ exit_code' = e.exit_code
    /\ escaped' = e.escaped
    /\ trace' = e.trace
\* no exception is propagating: the next statement runs
Going(e) == e.escaped = NoException
\* sys.stderr.write on a stream that cannot take the line
StderrFailure == [exc |-> "OSError", msg |-> "[Errno 28] No space left on device"]
\* log_json(level, event, **fields) as a statement: the record goes to stderr,
\* or the write raises.
Log(e, level, event, fields) ==
    IF ~Going(e) THEN e
    ELSE IF stderr = "open"
    THEN [e EXCEPT !.logs = Append(@, log_json(level, event, fields)),
                   !.trace = Append(@, "log " \o event)]
    ELSE [e EXCEPT !.escaped = StderrFailure]
\* an exception no except clause matches
Escape(e, exc, msg) == IF ~Going(e) THEN e ELSE [e EXCEPT !.escaped = [exc |-> exc, msg |-> msg]]

\* ------------------------------------------------------------ ProxyHandler
\* _send_json(status, payload): the status line and json.dumps(payload) as the body
SendJsonOk(status, payload) == [status |-> 200, body |-> JsonBytes(payload)]
SendJson(status, payload) == [status |-> status, body |-> JsonBytes(payload)]
\* a response written to the client, as a statement
Respond(e, resp) ==
    IF ~Going(e) THEN e ELSE [e EXCEPT !.response = resp, !.trace = Append(@, "send")]

\* _read_json: int(Content-Length or "0"), rfile.read, parse_json_bytes
ReadJson(req) ==
    IF req.content_length = "abc"
    THEN Raise("ValueError", "invalid literal for int() with base 10: 'abc'")
    ELSE parse_json_bytes(IF req.content_length = "absent" THEN EmptyBytes ELSE req.body)

\* The status the except clauses of do_POST answer with: BAD_REQUEST for a
\* ValidationError, BAD_GATEWAY for a ConnectionError, 0 when neither clause
\* matches.
ExceptStatus500(exc) ==
    IF IsSubclass(exc, "ValidationError") THEN 400
    ELSE IF IsSubclass(exc, "ConnectionError") THEN 500
    ELSE 0

ExceptStatus(exc) ==
    IF IsSubclass(exc, "ValidationError") THEN 400
    ELSE IF IsSubclass(exc, "ConnectionError") THEN 502
    ELSE 0

\* The except clauses of do_POST, for an exception raised inside its try block.
PostExcept(e, exc, msg) ==
    IF IsSubclass(exc, "ValidationError")
    THEN Respond(Log(e, "warn", "proxy.validation_error", [error |-> JStr(msg)]),
                 SendJson(ExceptStatus(exc), JDict([error |-> JStr(msg)])))
    ELSE IF IsSubclass(exc, "ConnectionError")
    THEN Respond(Log(e, "error", "proxy.connection_error", [error |-> JStr(msg)]),
                 SendJson(ExceptStatus(exc), JDict([error |-> JStr(msg)])))
    ELSE Escape(e, exc, msg)

\* The rest of do_POST once call_lm_studio has ended with `res`; `e` is what
\* the handler had done by then.
PostFinish(res, e) ==
    /\ result' = res
    /\ pc' = "done"
    /\ IF res.kind = "return"
       THEN Commit(Log(Respond(e, SendJson(res.status, res.data)),
                       "info", "proxy.response", [status |-> JInt(res.status)]))
       ELSE Commit(PostExcept(e, res.exc, res.msg))

\* The body of do_GET: the answer depends on self.path alone.
GetResponseNotFound(path) == SendJson(404, JDict([error |-> JStr("not_found")]))
GetResponse(path) ==
    IF path = "/health"
    THEN SendJson(200, JDict([status |-> JStr("ok")]))
    ELSE SendJson(404, JDict([error |-> JStr("not_found")]))

do_GET(req) ==
    /\ mode = "server"
    /\ pc = "idle"
    /\ req.method = "GET"
    /\ request' = req
    /\ pc' = "done"
    /\ Commit(Respond(Now, GetResponse(req.path)))
    /\ UNCHANGED <<validated, attempt, last_error, calls, sleeps, delays, result, stdin, sent,
                   twin_logs>>
    /\ UNCHANGED <<environment, harness>>

\* A request whose method ProxyHandler defines no do_<METHOD> for: the base
\* class BaseHTTPRequestHandler answers 501 with its HTML error page.
UnsupportedMethod(req) ==
    /\ mode = "server"
    /\ pc = "idle"
    /\ req.method \notin {"GET", "POST"}
    /\ request' = req
    /\ pc' = "done"
    /\ Commit(Respond(Now, [status |-> 501, body |-> MalformedBytes]))
    /\ UNCHANGED <<validated, attempt, last_error, calls, sleeps, delays, result, stdin, sent,
                   twin_logs>>
    /\ UNCHANGED <<environment, harness>>

\* do_POST up to the call of call_lm_studio (which starts with last_error = None
\* and the first value of range(config.retries + 1)).
do_POST(req) ==
    /\ mode = "server"
    /\ pc = "idle"
    /\ req.method = "POST"
    /\ request' = req
    /\ UNCHANGED <<calls, sleeps, delays, result, stdin, sent>>
    /\ UNCHANGED <<environment, harness>>
    /\ IF req.path # "/v1/chat/completions"
       THEN /\ Commit(Respond(Now, SendJson(404, JDict([error |-> JStr("not_found")]))))
            /\ pc' = "done"
            /\ UNCHANGED <<validated, attempt, last_error, twin_logs>>
       ELSE LET incoming == ReadJson(req)
                checked == IF incoming.ok THEN validate_chat_request(incoming.val) ELSE incoming
                twin == ReadJson([req EXCEPT !.body = TwinBytes(@)])
                twin_checked == IF twin.ok THEN validate_chat_request(twin.val) ELSE twin
                logged == Log(Now, "info", "proxy.request",
                              [path |-> JStr(req.path), client |-> JStr("127.0.0.1"),
                               payload |-> JDict(redact_for_logs(checked.val))])
            IN  /\ twin_logs' = IF stderr = "open"
                                THEN twin_logs \o IngressLogs("proxy",
                                        [path |-> JStr(req.path), client |-> JStr("127.0.0.1")],
                                        twin_checked)
                                ELSE twin_logs
                /\ IF checked.ok
                    THEN /\ validated' = checked.val
                         /\ Commit(logged)
                         /\ IF Going(logged)
                            THEN /\ pc' = "calling"
                                 /\ attempt' = LocalOfCall(attempt, 0)
                                 /\ last_error' = LocalOfCall(last_error, JNull)
                            ELSE /\ pc' = "done"
                                 /\ UNCHANGED <<attempt, last_error>>
                    ELSE /\ pc' = "done"
                         /\ Commit(PostExcept(Now, checked.exc, checked.msg))
                         /\ UNCHANGED <<validated, attempt, last_error>>

\* -------------------------------------------------------------- handle_stdin
\* sys.stdout.write(json.dumps(payload) + "\n")
WriteLine(payload) == [payload |-> payload, newline |-> TRUE]
\* the write as a statement
Write(e, payload) ==
    IF ~Going(e) THEN e
    ELSE [e EXCEPT !.stdout = Append(@, WriteLine(payload)), !.trace = Append(@, "write")]
\* return <status>
Return(e, status) == IF ~Going(e) THEN e ELSE [e EXCEPT !.exit_code = status]

\* `total` after the k-th read(8192) of a stream of `size` bytes.
TotalAfter(k, size) == IF k * READ_CHUNK < size THEN k * READ_CHUNK ELSE size

\* The read loop meets `total > max_bytes` after some chunk.
TooLargeAtCap(size) ==
    \E k \in 1..((size + READ_CHUNK - 1) \div READ_CHUNK) :
        TotalAfter(k, size) >= MAX_STDIN_BYTES

TooLarge(size) ==
    \E k \in 1..((size + READ_CHUNK - 1) \div READ_CHUNK) :
        TotalAfter(k, size) > MAX_STDIN_BYTES

\* The status handle_stdin returns from its three early/except returns.
StdinExitOversize == 1
StdinExitValidation == 1
StdinExitConnection == 2

\* What the twin run of handle_stdin logs before it calls call_lm_studio: its
\* stdin has the same size and denotes the twin request.
StdinTwinLogs(input) ==
    IF TooLarge(input.size)
    THEN <<log_json("warn", "stdin.too_large", [max_bytes |-> JInt(MAX_STDIN_BYTES)])>>
    ELSE LET payload == parse_json_bytes(TwinBytes(input.data))
             checked == IF payload.ok THEN validate_chat_request(payload.val) ELSE payload
         IN  IngressLogs("stdin", <<>>, checked)

\* handle_stdin up to the call of call_lm_studio.
handle_stdin(input) ==
    /\ mode = "stdin"
    /\ pc = "idle"
    /\ stdin' = input
    /\ UNCHANGED <<request, calls, sleeps, delays, result, sent>>
    /\ UNCHANGED <<environment, harness>>
    /\ twin_logs' = IF stderr = "open" THEN twin_logs \o StdinTwinLogs(input) ELSE twin_logs
    /\ IF TooLarge(input.size)
       THEN /\ Commit(Return(Write(Log(Now, "warn", "stdin.too_large",
                                       [max_bytes |-> JInt(MAX_STDIN_BYTES)]),
                                   JDict([error |-> JStr("stdin payload too large")])),
                             StdinExitOversize))
            /\ pc' = "done"
            /\ UNCHANGED <<validated, attempt, last_error>>
       ELSE LET payload == parse_json_bytes(input.data)
                checked == IF payload.ok THEN validate_chat_request(payload.val) ELSE payload
                logged == Log(Now, "info", "stdin.request",
                              [payload |-> JDict(redact_for_logs(checked.val))])
            IN  IF checked.ok
                THEN /\ validated' = checked.val
                     /\ Commit(logged)
                     /\ IF Going(logged)
                        THEN /\ pc' = "calling"
                             /\ attempt' = LocalOfCall(attempt, 0)
                             /\ last_error' = LocalOfCall(last_error, JNull)
                        ELSE /\ pc' = "done"
                             /\ UNCHANGED <<attempt, last_error>>
                ELSE /\ pc' = "done"
                     /\ UNCHANGED <<validated, attempt, last_error>>
                     /\ IF IsSubclass(checked.exc, "ValidationError")
                        THEN Commit(Return(Write(Log(Now, "warn", "stdin.validation_error",
                                                     [error |-> JStr(checked.msg)]),
                                                 JDict([error |-> JStr(checked.msg)])),
                                           StdinExitValidation))
                        ELSE Commit(Escape(Now, checked.exc, checked.msg))

\* The rest of handle_stdin once call_lm_studio has ended with `res`; `e` is
\* what handle_stdin had done by then.
StdinFinish(res, e) ==
    /\ result' = res
    /\ pc' = "done"
    /\ IF res.kind = "return"
       THEN Commit(Return(Write(e, JDict([status |-> JInt(res.status), data |-> res.data])), 0))
       ELSE IF IsSubclass(res.exc, "ConnectionError")
       THEN Commit(Return(Write(Log(e, "error", "stdin.connection_error",
                                    [error |-> JStr(res.msg)]),
                                JDict([error |-> JStr(res.msg)])),
                          StdinExitConnection))
       ELSE Commit(Escape(e, res.exc, res.msg))

\* call_lm_studio hands its outcome back to whichever of do_POST and
\* handle_stdin called it.
Finish(res, e) ==
    /\ IF mode = "server" THEN PostFinish(res, e) ELSE StdinFinish(res, e)
    \* the twin run met the same upstream outcomes, so it ends with the same res
    /\ twin_logs' = twin_logs \o SubSeq(logs', Len(logs) + 1, Len(logs'))

\* ---------------------------------------------------------- call_lm_studio
\* 500 <= int(status) < 600
Is5xxExclusiveLow(status) == 500 < status /\ status < 600
Is5xxNoUpper(status) == 500 <= status
Is5xx(status) == 500 <= status /\ status < 600
\* if attempt >= config.retries: break
IsLastAttemptStrict(a, retries) == a > retries
IsLastAttempt(a, retries) == a >= retries
\* attempt in range(config.retries + 1)
InRange(a, retries) == a < retries + 1
\* str(HTTPError)
HttpErrorText(code) == "HTTP Error " \o ToString(code) \o ": "
\* str(URLError)
UrlErrorText(reason) == "<urlopen error " \o reason \o ">"
\* f"Invalid response from LM Studio: {exc}"
InvalidResponseText(msg) == "Invalid response from LM Studio: " \o msg

\* retry_backoff(attempt): the argument of time.sleep, in milliseconds, when
\* random.uniform(BACKOFF_JITTER_MIN, BACKOFF_JITTER_MAX) returns `jitter`.
BACKOFF_BASE_SECONDS == 400
BACKOFF_JITTER_MIN == 50
BACKOFF_JITTER_MAX == 200
Jitters == {BACKOFF_JITTER_MIN, 125, BACKOFF_JITTER_MAX}
RECURSIVE Pow2(_)
Pow2(n) == IF n = 0 THEN 1 ELSE 2 * Pow2(n - 1)
retry_backoff_linear(k, jitter) == BACKOFF_BASE_SECONDS * (k + 1) + jitter
retry_backoff(k, jitter) == BACKOFF_BASE_SECONDS * Pow2(k) + jitter

\* What one pass of the try statement does with the outcome `out` of urlopen /
\* read: "return" a pair, "retry" (an except clause that may back off),
\* "stop" (an except clause that breaks at once), or "escape" (no except
\* clause matches and the exception leaves call_lm_studio).
Classify(out) ==
    CASE out.kind = "response" ->
            LET data == parse_json_bytes(out.body)
            IN  IF data.ok
                THEN [next |-> "return", exc |-> "", text |-> "", status |-> out.code, data |-> data.val]
                ELSE IF IsSubclass(data.exc, "ValidationError")
                THEN [next |-> "retry", exc |-> data.exc, text |-> InvalidResponseText(data.msg),
                      status |-> 0, data |-> JNull]
                ELSE [next |-> "escape", exc |-> data.exc, text |-> data.msg, status |-> 0, data |-> JNull]
      [] out.kind = "http_error" ->
            [next |-> IF ~Is5xx(out.code) THEN "stop" ELSE "retry",
             exc |-> "HTTPError", text |-> HttpErrorText(out.code), status |-> 0, data |-> JNull]
      [] out.kind = "url_error" ->
            [next |-> "retry", exc |-> "URLError", text |-> UrlErrorText(out.reason),
             status |-> 0, data |-> JNull]
      [] out.kind = "read_timeout" ->
            [next |-> "escape", exc |-> "TimeoutError", text |-> out.reason, status |-> 0, data |-> JNull]
      [] out.kind = "remote_disconnected" ->
            [next |-> "escape", exc |-> "RemoteDisconnected", text |-> out.reason,
             status |-> 0, data |-> JNull]

\* urlopen(request, timeout=config.timeout_s) has been called
Urlopened(e) == [e EXCEPT !.trace = Append(@, "urlopen")]

\* One iteration of `for attempt in range(config.retries + 1)`.
\* The upstream answers with one of `outcomes` and random.uniform returns one
\* of `jitters`.
Attempt(outcomes, jitters) ==
    /\ pc = "calling"
    /\ InRange(attempt, config.retries)
    /\ \E out \in outcomes :
        LET c == Classify(out)
        IN  /\ calls' = Append(calls, out)
            /\ sent' = Append(sent, NewRequest(sent, build_request(config, validated)))
            /\ UNCHANGED <<request, validated, stdin, environment, harness>>
            /\ CASE c.next = "return" ->
                      /\ Finish(Returned(c.status, c.data), Urlopened(Now))
                      /\ UNCHANGED <<attempt, last_error, sleeps, delays>>
                 [] c.next = "escape" ->
                      /\ Finish(Raised(c.exc, c.text), Urlopened(Now))
                      /\ UNCHANGED <<attempt, last_error, sleeps, delays>>
                 [] c.next = "stop" ->
                      /\ last_error' = JStr(c.text)
                      /\ pc' = "break"
                      /\ Commit(Urlopened(Now))
                      /\ UNCHANGED <<attempt, sleeps, delays, result, twin_logs>>
                 [] c.next = "retry" ->
                      /\ last_error' = JStr(c.text)
                      /\ IF IsLastAttempt(attempt, config.retries)
                         THEN /\ pc' = "break"
                              /\ UNCHANGED <<attempt, sleeps, delays>>
                         ELSE /\ sleeps' = Append(sleeps, attempt)
                              /\ \E jitter \in jitters :
                                    delays' = Append(delays, retry_backoff(attempt, jitter))
                              /\ attempt' = attempt + 1
                              /\ pc' = "calling"
                      /\ Commit(Urlopened(Now))
                      /\ UNCHANGED <<result, twin_logs>>

\* raise ConnectionError(last_error or "Unknown LM Studio error"), reached by
\* break or by running out of range(config.retries + 1).
RaiseConnectionError ==
    /\ \/ pc = "break"
       \/ pc = "calling" /\ ~InRange(attempt, config.retries)
    /\ Finish(Raised("ConnectionError",
                     IF Truthy(last_error) THEN last_error.v ELSE "Unknown LM Studio error"),
              Now)
    /\ UNCHANGED <<request, validated, attempt, last_error, calls, sleeps, delays, stdin, sent>>
    /\ UNCHANGED <<environment, harness>>

Next ==
    \/ \E req \in HttpRequests : do_GET(req)
    \/ \E req \in HttpRequests : do_POST(req)
    \/ \E req \in HttpRequests : UnsupportedMethod(req)
    \/ \E input \in StdinInputs : handle_stdin(input)
    \/ Attempt(UpstreamOutcomes, {BACKOFF_JITTER_MIN})
    \/ RaiseConnectionError

\* Every request, configuration and upstream outcome; the jitter, which
\* nothing reads, is explored by SpecBackoff.
Spec == Init /\ [][Next]_vars

\* ---- the retry loop with its delays: one request, a few upstream outcomes,
\* every retry count up to MaxBackoffs and every jitter
MaxBackoffs == 3
BackoffOutcomes ==
    {Outcome("response", 200, "", JsonBytes(JDict([ok |-> JBool(TRUE)]))),
     Outcome("response", 200, "", MalformedBytes),
     Outcome("http_error", 503, "", EmptyBytes),
     Outcome("http_error", 404, "", EmptyBytes),
     Outcome("url_error", 0, "timed out", EmptyBytes)}
BackoffRequest ==
    [method |-> "POST", path |-> "/v1/chat/completions", content_length |-> "exact",
     body |-> JsonBytes(JDict([messages |-> JList(<<UserHello>>)]))]

InitBackoff ==
    /\ config \in {ProxyConfig(DEFAULT_LISTEN_HOST, DEFAULT_LISTEN_PORT, DEFAULT_LM_STUDIO_BASE,
                                DEFAULT_TIMEOUT_S, r, JNull) : r \in 0..MaxBackoffs}
    /\ mode \in {"server", "stdin"}
    /\ stderr = "open"
    /\ Fresh
    /\ fn = ""
    /\ arg = JNull
    /\ ret = NotCalled

NextBackoff ==
    \/ do_POST(BackoffRequest)
    \/ handle_stdin([size |-> 64, data |-> BackoffRequest.body])
    \/ Attempt(BackoffOutcomes, Jitters)
    \/ RaiseConnectionError

SpecBackoff == InitBackoff /\ [][NextBackoff]_vars

\* ---- the handlers when the stream behind sys.stderr may refuse the write
\* (a full disk, a closed pipe): the default upstream, no or one retry
InitLog ==
    /\ config \in {c \in Configs : c.retries \in {0, 1} /\ c.api_key = JNull}
    /\ mode \in {"server", "stdin"}
    /\ stderr \in {"open", "full"}
    /\ Fresh
    /\ fn = ""
    /\ arg = JNull
    /\ ret = NotCalled

SpecLog == InitLog /\ [][Next]_vars

\* ------------------------------------------------------------- ProxyServer
\* HTTPServer.serve_forever: requests that arrive wait in the listening
\* socket's queue and are handled one at a time, each by a new ProxyHandler.
MaxInFlight == 2
ServerRequests ==
    {BackoffRequest,
     [BackoffRequest EXCEPT !.body = JsonBytes(JDict([messages |-> JList(<<SystemMsg, UserHello>>)]))],
     [BackoffRequest EXCEPT !.body = MalformedBytes],
     [method |-> "GET", path |-> "/health", content_length |-> "absent", body |-> EmptyBytes]}
ServerOutcomes ==
    {Outcome("response", 200, "", JsonBytes(JDict([ok |-> JBool(TRUE)]))),
     Outcome("response", 200, "", MalformedBytes),
     Outcome("http_error", 503, "", EmptyBytes),
     Outcome("http_error", 404, "", EmptyBytes),
     Outcome("url_error", 0, "[Errno 111] Connection refused", EmptyBytes),
     Outcome("read_timeout", 0, "timed out", EmptyBytes)}

InitServer ==
    /\ config \in {c \in Configs : c.retries \in {0, 1} /\ c.api_key = JNull}
    /\ mode = "server"
    /\ stderr = "open"
    /\ Fresh
    /\ fn = ""
    /\ arg = JNull
    /\ ret = NotCalled

\* a client's request reaches the listening socket
Arrive(req) ==
    /\ Len(backlog) < MaxInFlight
    /\ backlog' = Append(backlog, req)
    /\ UNCHANGED <<environment, handler, served, fn, arg, ret>>

\* the request serve_forever hands to the next handler
NextInLine == backlog[Len(served) + 1]
Waiting == Len(served) < Len(backlog)

\* finish_request returns: the handler and its locals are gone, the server
\* and its config stay.
finish_request ==
    /\ mode = "server"
    /\ pc = "done"
    /\ Waiting
    /\ served' = Append(served, [request |-> request, calls |-> calls, sleeps |-> sleeps,
                                 response |-> response, escaped |-> escaped])
    /\ request' = NoRequest
    /\ pc' = "idle"
    /\ validated' = JNull
    /\ calls' = <<>>
    /\ sleeps' = <<>>
    /\ delays' = <<>>
    /\ result' = Pending
    /\ response' = NoResponse
    /\ escaped' = NoException
    /\ sent' = <<>>
    /\ trace' = <<>>
    /\ UNCHANGED <<attempt, last_error, logs, twin_logs, stdin, stdout, exit_code>>
    /\ UNCHANGED <<environment, backlog, fn, arg, ret>>

NextServer ==
    \/ \E req \in ServerRequests : Arrive(req)
    \/ Waiting /\ do_GET(NextInLine)
    \/ Waiting /\ do_POST(NextInLine)
    \/ Attempt(ServerOutcomes, {BACKOFF_JITTER_MIN})
    \/ RaiseConnectionError
    \/ finish_request

SpecServer == InitServer /\ [][NextServer]_vars

\* ------------------------------------------------- the validator on its own
InitValidate ==
    /\ config \in {c \in Configs : c.retries = 0 /\ c.api_key = JNull}
    /\ mode = "check"
    /\ stderr = "open"
    /\ Fresh
    /\ fn = ""
    /\ arg \in ValidatorInputs
    /\ ret = NotCalled

\* ret = validate_chat_request(arg)
call_validate_chat_request ==
    /\ mode = "check"
    /\ fn = ""
    /\ fn' = "validate_chat_request"
    /\ ret' = validate_chat_request(arg)
    /\ UNCHANGED <<environment, handler, backlog, served, arg>>

\* validate_chat_request(validate_chat_request(R)): the accepted result is
\* validated once more.
revalidate ==
    /\ mode = "check"
    /\ fn = "validate_chat_request"
    /\ ret.ok
    /\ fn' = "revalidate"
    /\ arg' = ret.val
    /\ ret' = validate_chat_request(ret.val)
    /\ UNCHANGED <<environment, handler, backlog, served>>

\* redact_for_logs(validated), as do_POST and handle_stdin call it.
call_redact_for_logs ==
    /\ mode = "check"
    /\ fn = "validate_chat_request"
    /\ ret.ok
    /\ fn' = "redact_for_logs"
    /\ arg' = ret.val
    /\ ret' = Ok(redact_for_logs(ret.val))
    /\ UNCHANGED <<environment, handler, backlog, served>>

NextValidate ==
    \/ call_validate_chat_request
    \/ revalidate
    \/ call_redact_for_logs

SpecValidate == InitValidate /\ [][NextValidate]_vars

\* -------------------------------------------------- parse_args, build_config
\* A piece of text from the environment or the command line, with what int()
\* makes of it: `numeric` says whether int(text) succeeds, `value` is its result.
Text(text, numeric, value) == [set |-> TRUE, text |-> text, numeric |-> numeric, value |-> value]
Num(text, value) == Text(text, TRUE, value)
Word(text) == Text(text, FALSE, 0)
\* os.getenv(name) is None; the flag is not on the command line
Unset == [set |-> FALSE, text |-> "", numeric |-> FALSE, value |-> 0]
\* `env and env.strip()`
NonBlank(env) == env.set /\ env.text \notin {"", " "}
\* a URL given as text
Url(stem, slashes) == [set |-> TRUE, text |-> stem, numeric |-> FALSE, value |-> slashes]

\* The default of an integer option: int(env) when env is set and not blank,
\* the compiled-in default otherwise; parser.error when int(env) fails.
IntDefault(name, env, default) ==
    IF NonBlank(env)
    THEN IF env.numeric THEN Ok(env.value)
         ELSE Raise("SystemExit", name \o " must be an integer, got: " \o env.text)
    ELSE Ok(default)
\* os.getenv(name) or default
TextDefault(env, default) == IF env.set /\ env.text # "" THEN env.text ELSE default
\* argparse: the flag's value when the flag is given, the default otherwise
DefaultOverFlag(flag, default) == default
FlagOrDefault(flag, default) == IF flag.set THEN flag ELSE default
\* argparse type=int applied to a flag that is given
IntFlag(name, flag) ==
    IF flag.numeric THEN Ok(flag.value)
    ELSE Raise("SystemExit", "argument " \o name \o ": invalid int value: '" \o flag.text \o "'")

parse_args(argv, env) ==
    LET default_port == IntDefault("LOCAL_AI_LISTEN_PORT", env.LOCAL_AI_LISTEN_PORT,
                                   DEFAULT_LISTEN_PORT)
        default_timeout == IntDefault("LOCAL_AI_TIMEOUT", env.LOCAL_AI_TIMEOUT, DEFAULT_TIMEOUT_S)
        default_retries == IntDefault("LOCAL_AI_RETRIES", env.LOCAL_AI_RETRIES, DEFAULT_RETRIES)
        port == IF argv.listen_port.set THEN IntFlag("--listen-port", argv.listen_port)
                ELSE default_port
        timeout == IF argv.timeout.set THEN IntFlag("--timeout", argv.timeout)
                   ELSE default_timeout
        retries == IF argv.retries.set THEN IntFlag("--retries", argv.retries)
                   ELSE default_retries
        base == FlagOrDefault(argv.lm_studio_base,
                              IF env.LM_STUDIO_BASE_URL.set
                                 /\ ~(env.LM_STUDIO_BASE_URL.text = ""
                                      /\ env.LM_STUDIO_BASE_URL.value = 0)
                              THEN env.LM_STUDIO_BASE_URL
                              ELSE Url(DEFAULT_LM_STUDIO_BASE.stem, DEFAULT_LM_STUDIO_BASE.slashes))
        api_key == FlagOrDefault(argv.api_key, env.LOCAL_AI_API_KEY)
    IN  IF ~default_port.ok THEN default_port
        ELSE IF ~default_timeout.ok THEN default_timeout
        ELSE IF ~default_retries.ok THEN default_retries
        ELSE IF ~port.ok THEN port
        ELSE IF ~timeout.ok THEN timeout
        ELSE IF ~retries.ok THEN retries
        ELSE Ok([listen_host |-> FlagOrDefault(argv.listen_host,
                                     Word(TextDefault(env.LOCAL_AI_LISTEN_HOST,
                                                      DEFAULT_LISTEN_HOST))).text,
                 listen_port |-> port.val,
                 lm_studio_base |-> BaseUrl(base.text, base.value),
                 timeout |-> timeout.val,
                 retries |-> retries.val,
                 api_key |-> IF api_key.set THEN JStr(api_key.text) ELSE JNull,
                 stdin |-> argv.stdin])

build_config(args) ==
    ProxyConfig(args.listen_host, args.listen_port, args.lm_studio_base, args.timeout,
                args.retries, args.api_key)

\* ---- the command lines and environments main() is started with
NoFlags ==
    [listen_host |-> Unset, listen_port |-> Unset, lm_studio_base |-> Unset, timeout |-> Unset,
     retries |-> Unset, api_key |-> Unset]
NoEnv ==
    [LOCAL_AI_LISTEN_HOST |-> Unset, LOCAL_AI_LISTEN_PORT |-> Unset, LM_STUDIO_BASE_URL |-> Unset,
     LOCAL_AI_TIMEOUT |-> Unset, LOCAL_AI_RETRIES |-> Unset, LOCAL_AI_API_KEY |-> Unset]
\* every combination of the integer options, the text options left alone
IntegerStartups ==
    { [argv |-> [NoFlags EXCEPT !.listen_port = fp, !.timeout = ft, !.retries = fr]
                @@ [stdin |-> pipe],
       env |-> [NoEnv EXCEPT !.LOCAL_AI_LISTEN_PORT = ep, !.LOCAL_AI_TIMEOUT = et,
                             !.LOCAL_AI_RETRIES = er]] :
        fp \in {Unset, Num("9100", 9100), Word("abc")},
        ft \in {Unset, Num("10", 10)},
        fr \in {Unset, Num("0", 0)},
        ep \in {Unset, Word(""), Num("9000", 9000), Word("30s"), Num("70000", 70000)},
        et \in {Unset, Word(""), Num("60", 60), Word("30s"), Num("-1", 0 - 1)},
        er \in {Unset, Word(" "), Num("5", 5), Word("invalid"), Num("-1", 0 - 1)},
        pipe \in BOOLEAN }
\* every combination of the text options, the integer options left alone
TextStartups ==
    { [argv |-> [NoFlags EXCEPT !.listen_host = fh, !.lm_studio_base = fb, !.api_key = fk]
                @@ [stdin |-> FALSE],
       env |-> [NoEnv EXCEPT !.LOCAL_AI_LISTEN_HOST = eh, !.LM_STUDIO_BASE_URL = eb,
                             !.LOCAL_AI_API_KEY = ek]] :
        fh \in {Unset, Word("0.0.0.0")},
        fb \in {Unset, Url("http://flag.example:1234", 0)},
        fk \in {Unset, Word("sk-flag")},
        eh \in {Unset, Word(""), Word("10.0.0.1")},
        eb \in {Unset, Url("", 0), Url("http://lm.local:1234", 1)},
        ek \in {Unset, Word(""), Word("sk-local")} }
Startups == IntegerStartups \cup TextStartups

InitConfig ==
    /\ config \in {c \in Configs : c.retries = 0 /\ c.api_key = JNull}
    /\ mode = "startup"
    /\ stderr = "open"
    /\ Fresh
    /\ fn = ""
    /\ arg \in Startups
    /\ ret = NotCalled

\* main() up to and including build_config: ret is the ProxyConfig and the
\* --stdin switch, or the SystemExit of parser.error.
main ==
    /\ mode = "startup"
    /\ fn = ""
    /\ fn' = "main"
    /\ ret' = LET args == parse_args(arg.argv, arg.env)
              IN  IF args.ok
                  THEN Ok([config |-> build_config(args.val), stdin |-> args.val.stdin])
                  ELSE args
    /\ UNCHANGED <<environment, handler, backlog, served, arg>>

NextConfig == main

SpecConfig == InitConfig /\ [][NextConfig]_vars

\* ============================================================== properties
\* Vocabulary of the properties, stated on the outcomes themselves.
CallEnded == result.kind # "pending"
RaisedConnectionError == result.kind = "raise" /\ result.exc = "ConnectionError"
Answered5xx(out) == out.kind = "http_error" /\ out.code \in 500..599
AnsweredTerminal(out) == out.kind = "http_error" /\ out.code \notin 500..599
\* a body that is empty, is not parseable JSON, or is JSON with a non-object root
MalformedBody(out) ==
    /\ out.kind = "response"
    /\ \/ out.body.empty
       \/ ~out.body.utf8
       \/ ~out.body.wellformed
       \/ out.body.value.t # "dict"
WellFormed(out) ==
    /\ out.kind = "response"
    /\ ~out.body.empty /\ out.body.utf8 /\ out.body.wellformed /\ out.body.value.t = "dict"
\* connection refused, DNS failure, or a timeout while connecting or while
\* waiting for and reading the response
NetworkFailure(out) == out.kind \in {"url_error", "read_timeout"}
\* the failures the retry loop backs off from
RetriedFailure(out) ==
    \/ Answered5xx(out)
    \/ out.kind = "url_error"
    \/ MalformedBody(out) /\ out.body.utf8
InvalidResponsePrefixed(msg) ==
    \E v \in {"Empty request body", "Invalid JSON: Expecting value", "JSON root must be an object"} :
        msg = "Invalid response from LM Studio: " \o v
Max(a, b) == IF a >= b THEN a ELSE b

\* C1: for every retry count r >= 0, a call whose every attempt is answered
\* with a status in [500,599] ends only after exactly r+1 attempts and r
\* backoffs, and it ends by raising ConnectionError.
C1_AllAttempts5xx ==
    (/\ config.retries >= 0
     /\ \A i \in 1..Len(calls) : Answered5xx(calls[i]))
    => /\ Len(calls) <= config.retries + 1
       /\ CallEnded => /\ Len(calls) = config.retries + 1
                       /\ Len(sleeps) = config.retries
                       /\ RaisedConnectionError
C1_Witness ==
    /\ config.retries = 2
    /\ Len(calls) = 3
    /\ \A i \in 1..3 : calls[i].kind = "http_error" /\ calls[i].code = 503
    /\ Len(sleeps) = 2
    /\ RaisedConnectionError

\* C2: an attempt answered with an HTTP error status outside [500,599] is the
\* last attempt of its call and no backoff follows it, however many retries
\* remain; the call leaves the loop and ends by raising ConnectionError.  On
\* the first attempt this means one upstream call and zero backoffs.
C2_TerminalStatusStops ==
    \A i \in 1..Len(calls) :
        AnsweredTerminal(calls[i])
        => /\ i = Len(calls)
           /\ Len(sleeps) = i - 1
           /\ pc \in {"break", "done"}
           /\ CallEnded => RaisedConnectionError
           /\ (i = 1) => (Len(calls) = 1 /\ sleeps = <<>>)
C2_Witness ==
    /\ config.retries = 2
    /\ Len(calls) = 1
    /\ calls[1].kind = "http_error" /\ calls[1].code = 404
    /\ sleeps = <<>>
    /\ RaisedConnectionError

\* C3: an attempt whose body is empty, not parseable JSON, or JSON with a
\* non-object root is retryable: a backoff follows it while attempts remain,
\* and a call whose every attempt is such ends after retries+1 attempts with
\* a ConnectionError whose message starts "Invalid response from LM Studio".
C3_MalformedBodyRetried ==
    /\ \A i \in 1..Len(calls) :
          (MalformedBody(calls[i]) /\ i <= config.retries) => Len(sleeps) >= i
    /\ (/\ CallEnded
        /\ config.retries >= 0
        /\ \A i \in 1..Len(calls) : MalformedBody(calls[i]))
       => /\ Len(calls) = config.retries + 1
          /\ RaisedConnectionError
          /\ InvalidResponsePrefixed(result.msg)

\* C4: every network-level failure of an attempt (connection refused, DNS
\* failure, timeout while connecting or while waiting for / reading the
\* response) is retryable: a backoff follows it while attempts remain, and
\* after the last attempt the call raises ConnectionError.
C4_NetworkFailureRetried ==
    \A i \in 1..Len(calls) :
        NetworkFailure(calls[i])
        => /\ (i <= config.retries) => Len(sleeps) >= i
           /\ (i = config.retries + 1 /\ CallEnded) => RaisedConnectionError

\* C5: when call_lm_studio raises ConnectionError, at least one attempt was
\* made and the message is the error text of the last attempt made.
C5_MessageOfLastAttempt ==
    (result.kind = "raise" /\ IsSubclass(result.exc, "ConnectionError"))
    => /\ Len(calls) >= 1
       /\ result.msg = Classify(calls[Len(calls)]).text

\* C6: call_lm_studio returns a (status, body) pair only when the attempt
\* that produced it delivered a non-empty body that parsed as a JSON object;
\* every other ending is a raise, and a response carrying an upstream status
\* carries that parsed object.
C6_ReturnsOnlyParsedObject ==
    /\ result.kind = "return"
       => /\ Len(calls) >= 1
          /\ WellFormed(calls[Len(calls)])
          /\ result.data = calls[Len(calls)].body.value
          /\ result.data.t = "dict"
          /\ mode = "server"
             => response = [status |-> result.status, body |-> JsonBytes(result.data)]
    /\ (CallEnded /\ (calls = <<>> \/ ~WellFormed(calls[Len(calls)])))
       => /\ result.kind = "raise"
          /\ response.status \notin SuccessStatuses
C6_Witness ==
    /\ result.kind = "return"
    /\ result.status = 201
    /\ result.data = JDict([ok |-> JBool(TRUE)])
    /\ Len(calls) = 2

\* C7: if attempt k (0-based) is the first to yield a well-formed response,
\* after k retried failures, the call returns that attempt's (status, body)
\* at once: k+1 attempts, k backoffs, and no attempt after the success.
C7_ReturnsFirstSuccess ==
    \A i \in 1..Len(calls) :
        WellFormed(calls[i])
        => /\ i = Len(calls)
           /\ i <= config.retries + 1
           /\ \A j \in 1..(i - 1) : RetriedFailure(calls[j])
           /\ sleeps = [j \in 1..(i - 1) |-> j - 1]
           /\ result.kind = "return"
           /\ result.status = calls[i].code
           /\ result.data = calls[i].body.value
           /\ pc = "done"
C7_Witness ==
    /\ config.retries = 2
    /\ Len(calls) = 3
    /\ WellFormed(calls[3])
    /\ calls[3].code = 201
    /\ Len(sleeps) = 2
    /\ result.kind = "return"

\* the failures the classification of the upstream client calls retryable
ClassedRetryable(out) == Answered5xx(out) \/ NetworkFailure(out) \/ MalformedBody(out)

FailsValidation(req) ==
    LET raw == IF req.content_length = "absent" THEN EmptyBytes ELSE req.body
    IN  \/ raw.empty
        \/ ~raw.utf8
        \/ ~raw.wellformed
        \/ raw.value.t # "dict"
        \/ ~validate_chat_request(raw.value).ok
C9_ValidationFailure400 ==
    (/\ pc = "done"
     /\ request.method = "POST"
     /\ request.path = "/v1/chat/completions"
     /\ request.content_length # "abc"
     /\ FailsValidation(request))
    => /\ response.status = 400
       /\ DOMAIN response.body.value.v = {"error"}
       /\ response.body.value.v["error"].t = "str"
       /\ calls = <<>>

\* C10: for a valid POST /v1/chat/completions whose upstream call ends in a
\* ConnectionError (retries exhausted or a terminal upstream status), the
\* caller receives 502 with {"error": message}; the upstream's own error
\* status is not the status of the response.
C10_ConnectionFailure502 ==
    (/\ request.method = "POST"
     /\ result.kind = "raise"
     /\ IsSubclass(result.exc, "ConnectionError"))
    => /\ response = [status |-> 502,
                      body |-> JsonBytes(JDict([error |-> JStr(result.msg)]))]
       /\ escaped = NoException
       /\ \A i \in 1..Len(calls) :
             (calls[i].kind = "http_error" /\ calls[i].code # 502)
             => response.status # calls[i].code
C10_Witness ==
    /\ RaisedConnectionError
    /\ Len(calls) = 2
    /\ calls[1].kind = "url_error"
    /\ calls[2].kind = "http_error" /\ calls[2].code = 404
    /\ response.status = 502

\* C11: for a valid POST /v1/chat/completions whose upstream call succeeds,
\* the response carries exactly the status code of the successful attempt and
\* a body that denotes exactly the JSON object that attempt returned.
C11_SuccessPassedThrough ==
    (/\ request.method = "POST"
     /\ result.kind = "return")
    => /\ response.status = calls[Len(calls)].code
       /\ response.body.utf8 /\ response.body.wellformed /\ ~response.body.empty
       /\ response.body.value = calls[Len(calls)].body.value
       /\ escaped = NoException
C11_Witness ==
    /\ request.method = "POST"
    /\ result.kind = "return"
    /\ Len(calls) = 2
    /\ calls[2].code = 201
    /\ ~calls[2].body.dumped
    /\ response.status = 201
    /\ response.body.value = JDict([ok |-> JBool(TRUE)])

\* C12: every request that is neither GET /health nor POST
\* /v1/chat/completions, whatever its method (PUT and DELETE included), is
\* answered 404 with {"error": "not_found"}.
C12_UnroutedIs404 ==
    (/\ mode = "server"
     /\ pc = "done"
     /\ request # NoRequest
     /\ ~(request.method = "GET" /\ request.path = "/health")
     /\ ~(request.method = "POST" /\ request.path = "/v1/chat/completions"))
    => response = SendJson(404, JDict([error |-> JStr("not_found")]))

\* C13: GET /health is answered 200 with {"status": "ok"} whatever came
\* before it (a POST that succeeded, was retried, failed, timed out or broke
\* off with an exception), and serving it makes no upstream attempt.
HealthOk == [status |-> 200, body |-> JsonBytes(JDict([status |-> JStr("ok")]))]
IsHealthCheck(req) == req.method = "GET" /\ req.path = "/health"
C13_HealthAlwaysOk ==
    /\ \A i \in 1..Len(served) :
          IsHealthCheck(served[i].request)
          => /\ served[i].response = HealthOk
             /\ served[i].calls = <<>>
             /\ served[i].escaped = NoException
    /\ (pc = "done" /\ IsHealthCheck(request))
       => (response = HealthOk /\ calls = <<>> /\ sent = <<>> /\ escaped = NoException)
C13_Witness ==
    /\ Len(served) = 1
    /\ served[1].request.method = "POST"
    /\ Len(served[1].calls) = 2
    /\ served[1].calls[1].kind = "http_error" /\ served[1].calls[1].code = 503
    /\ served[1].calls[2].kind = "read_timeout"
    /\ served[1].escaped.exc = "TimeoutError"
    /\ pc = "done"
    /\ IsHealthCheck(request)
    /\ response.status = 200

\* The bytes cannot be turned into an accepted request: empty, not UTF-8,
\* not JSON, not an object at the root, or rejected by the validator.
Unacceptable(raw) ==
    \/ raw.empty
    \/ ~raw.utf8
    \/ ~raw.wellformed
    \/ raw.value.t # "dict"
    \/ ~validate_chat_request(raw.value).ok
\* handle_stdin has ended: it returned or an exception left it.
StdinEnded == mode = "stdin" /\ pc = "done"
ErrorLine(line) ==
    /\ line.newline
    /\ line.payload.t = "dict"
    /\ DOMAIN line.payload.v = {"error"}
    /\ line.payload.v["error"].t = "str"

\* C14: in pipe mode with input within the size cap, handle_stdin returns 0
\* exactly when validation and the upstream call succeed, 1 exactly when
\* parsing or validation fails (with no upstream attempt), 2 exactly when the
\* upstream client raises ConnectionError, and always one of 0, 1, 2.
C14_ExitCodeByOutcome ==
    (StdinEnded /\ stdin.size <= MAX_STDIN_BYTES)
    => /\ exit_code \in {0, 1, 2}
       /\ exit_code = 0 <=> (~Unacceptable(stdin.data) /\ result.kind = "return")
       /\ exit_code = 1 <=> Unacceptable(stdin.data)
       /\ exit_code = 1 => calls = <<>>
       /\ exit_code = 2 <=> (result.kind = "raise" /\ IsSubclass(result.exc, "ConnectionError"))

\* C15: every ended pipe-mode invocation has written exactly one
\* newline-terminated JSON line: on success an object with the upstream status
\* under "status" and the upstream body, otherwise an object with "error".
C15_OneJsonLine ==
    StdinEnded
    => /\ Len(stdout) = 1
       /\ stdout[1].newline
       /\ IF result.kind = "return"
          THEN /\ stdout[1].payload.v["status"] = JInt(calls[Len(calls)].code)
               /\ stdout[1].payload.v["data"] = calls[Len(calls)].body.value
          ELSE ErrorLine(stdout[1])

\* C16 as stated: input beyond the 10 MiB cap ends with one error line, no
\* parsing, validation or upstream attempt, and an exit status that is
\* non-zero and differs from that of a validation failure and from that of a
\* connection failure.
C16_OversizeDistinctStatus ==
    (StdinEnded /\ stdin.size > MAX_STDIN_BYTES)
    => /\ Len(stdout) = 1 /\ ErrorLine(stdout[1])
       /\ validated = JNull /\ calls = <<>>
       /\ exit_code \notin {0, StdinExitValidation, StdinExitConnection}

\* C16 amended: input is rejected as too large exactly when it exceeds the
\* 10 MiB cap; it then ends with the one line {"error": "stdin payload too
\* large"}, the log record stdin.too_large, no parsing, validation or upstream
\* attempt, and exit status 1 -- the status of a validation failure, distinct
\* only from success (0) and connection failure (2).
TooLargeLine == WriteLine(JDict([error |-> JStr("stdin payload too large")]))
C16_OversizeRejected ==
    StdinEnded
    => /\ stdin.size > MAX_STDIN_BYTES
          => /\ stdout = <<TooLargeLine>>
             /\ Len(logs) = 1 /\ logs[1].event = "stdin.too_large"
             /\ validated = JNull /\ calls = <<>> /\ result = Pending
             /\ escaped = NoException
             /\ exit_code = 1
             /\ exit_code = StdinExitValidation
             /\ exit_code \notin {0, StdinExitConnection}
       /\ stdin.size <= MAX_STDIN_BYTES
          => /\ \A i \in 1..Len(stdout) : stdout[i] # TooLargeLine
             /\ \A i \in 1..Len(logs) : logs[i].event # "stdin.too_large"
C16_Witness ==
    /\ StdinEnded
    /\ stdin.size = MAX_STDIN_BYTES + 1
    /\ ~Unacceptable(stdin.data)
    /\ exit_code = 1
    /\ stdout = <<TooLargeLine>>

\* C17: whatever the request body, headers, stdin bytes and upstream
\* behaviour, handling a GET, a POST or a pipe-mode run ends in a documented
\* shape (an HTTP response, or an exit status in 0..2 with one output line)
\* and no exception leaves do_GET, do_POST or handle_stdin.
C17_NoFailureEscapes ==
    (pc = "done" /\ (mode = "stdin" \/ request.method \in {"GET", "POST"}))
    => /\ escaped = NoException
       /\ mode = "server" => response # NoResponse
       /\ mode = "stdin" => (exit_code \in {0, 1, 2} /\ Len(stdout) = 1)

\* validate_chat_request has been applied to arg and ended with ret.
Validated == fn = "validate_chat_request"
ArgMessages == Get(arg.v, "messages")
Supplied(key) == key \in DOMAIN arg.v

\* C18: for every request object whose messages is missing, is not a list or
\* is an empty list, validate_chat_request raises ValidationError with the
\* text "messages must be a non-empty array", whatever the other fields hold.
C18_NoMessagesRejected ==
    (/\ Validated
     /\ \/ ~Supplied("messages")
        \/ ArgMessages.t # "list"
        \/ Len(ArgMessages.v) = 0)
    => /\ ~ret.ok
       /\ ret.exc = "ValidationError"
       /\ ret.msg = "messages must be a non-empty array"
C18_Witness ==
    /\ Validated
    /\ Supplied("messages") /\ ArgMessages = JList(<<>>)
    /\ Supplied("max_tokens") /\ arg.v["max_tokens"] = JInt(0)
    /\ Supplied("stream") /\ arg.v["stream"] = JInt(1)
    /\ ret.msg = "messages must be a non-empty array"

\* An element of messages the validator must refuse: not an object, role
\* missing / not a string / empty / outside the fixed set, or content missing /
\* not a string / empty.
RoleOutsideSet(m) ==
    /\ m.t = "dict"
    /\ Get(m.v, "role").t = "str"
    /\ Get(m.v, "role").v \notin VALID_ROLES \cup {""}
Offending(m) ==
    IF m.t # "dict" THEN TRUE
    ELSE \/ Get(m.v, "role").t # "str"
         \/ Get(m.v, "role").v \notin VALID_ROLES
         \/ Get(m.v, "content").t # "str"
         \/ Get(m.v, "content").v = ""
\* the error text speaks of messages[k]
NamesIndex(msg, k) ==
    LET at == "messages[" \o ToString(k) \o "]"
    IN  \/ \E rest \in {" must be an object", ".role must be a non-empty string",
                        ".content must be a non-empty string"} : msg = at \o rest
        \/ \E r \in {"robot"} :
              msg = at \o ".role must be one of " \o SortedRolesText \o ", got '" \o r \o "'"
\* the error text ends by quoting the role value r
NamesRole(msg, r) ==
    \E k \in 0..MaxMessages :
        msg = "messages[" \o ToString(k) \o "].role must be one of " \o SortedRolesText
              \o ", got '" \o r \o "'"

\* C19: when messages is a non-empty list with one or more invalid elements,
\* validate_chat_request raises ValidationError whose text names the smallest
\* (0-based) offending index and no other, and, when that element's role is a
\* non-empty string outside the fixed set, quotes that role value.
C19_FirstOffendingIndexNamed ==
    (/\ Validated
     /\ ArgMessages.t = "list"
     /\ \E i \in 1..Len(ArgMessages.v) : Offending(ArgMessages.v[i]))
    => LET bad == {i \in 1..Len(ArgMessages.v) : Offending(ArgMessages.v[i])}
           first == CHOOSE i \in bad : \A j \in bad : i <= j
       IN  /\ ~ret.ok
           /\ ret.exc = "ValidationError"
           /\ NamesIndex(ret.msg, first - 1)
           /\ \A k \in 0..MaxMessages : k # first - 1 => ~NamesIndex(ret.msg, k)
           /\ RoleOutsideSet(ArgMessages.v[first])
              => NamesRole(ret.msg, Get(ArgMessages.v[first].v, "role").v)
C19_Witness ==
    /\ Validated
    /\ ArgMessages = JList(<<UserHello, RobotMsg, JStr("user")>>)
    /\ ~ret.ok
    /\ NamesIndex(ret.msg, 1)
    /\ NamesRole(ret.msg, "robot")

\* C20: every request object validate_chat_request accepts comes back with
\* exactly the six fields model, messages, max_tokens, temperature, top_p and
\* stream, and each optional field the caller did not supply holds its
\* default: model "local-model", max_tokens 512, temperature 0.7, top_p 1,
\* stream false.
C20_DefaultsApplied ==
    (Validated /\ ret.ok)
    => /\ ret.val.t = "dict"
       /\ DOMAIN ret.val.v = {"model", "messages", "max_tokens", "temperature", "top_p", "stream"}
       /\ ~Supplied("model") => ret.val.v["model"] = JStr("local-model")
       /\ ~Supplied("max_tokens") => ret.val.v["max_tokens"] = JInt(512)
       /\ ~Supplied("temperature") => ret.val.v["temperature"] = JFloat(7)
       /\ ~Supplied("top_p") => ret.val.v["top_p"] = JInt(1)
       /\ ~Supplied("stream") => ret.val.v["stream"] = JBool(FALSE)
C20_Witness ==
    /\ Validated
    /\ ret.ok
    /\ DOMAIN arg.v = {"messages", "temperature"}
    /\ arg.v["temperature"] = JInt(2)
    /\ ret.val.v["temperature"] = JInt(2)
    /\ ret.val.v["max_tokens"] = JInt(512)
    /\ ret.val.v["model"] = JStr("local-model")

\* The contract of each field, read on the JSON value: an integer or a number
\* is a JSON number, not true / false; null counts as not supplied.
Given(key) == Supplied(key) /\ arg.v[key] # JNull
JsonInteger(x) == x.t = "int"
JsonNumber(x) == x.t \in {"int", "float"}
InUnit(x, lo, hi) == lo <= Tenths(x) /\ Tenths(x) <= hi
WellTypedMessage(m) ==
    /\ m.t = "dict"
    /\ DOMAIN m.v = {"role", "content"}
    /\ m.v["role"].t = "str" /\ m.v["role"].v \in VALID_ROLES
    /\ m.v["content"].t = "str" /\ m.v["content"].v # ""

\* C21: every request validate_chat_request returns has a text model, a
\* non-empty messages list whose elements each have a role of the fixed set
\* and a non-empty text content, an integer max_tokens in 1..8192, a number
\* temperature in 0.0..2.0, a number top_p in 0..1 and a boolean stream.
C21_ValidatedWellTyped ==
    (Validated /\ ret.ok)
    => LET r == ret.val.v
       IN  /\ r["model"].t = "str"
           /\ r["messages"].t = "list" /\ Len(r["messages"].v) >= 1
           /\ \A i \in 1..Len(r["messages"].v) : WellTypedMessage(r["messages"].v[i])
           /\ JsonInteger(r["max_tokens"])
           /\ 1 <= r["max_tokens"].v /\ r["max_tokens"].v <= MAX_TOKENS_LIMIT
           /\ JsonNumber(r["temperature"])
           /\ InUnit(r["temperature"], TEMPERATURE_MIN, TEMPERATURE_MAX)
           /\ JsonNumber(r["top_p"]) /\ InUnit(r["top_p"], 0, 10)
           /\ r["stream"].t = "bool"

\* arg without the two fields C22 is about
OtherFieldsValid ==
    validate_chat_request(
        JDict([k \in DOMAIN arg.v \ {"temperature", "max_tokens"} |-> arg.v[k]])).ok
TemperatureIn ==
    Supplied("temperature") /\ JsonNumber(arg.v["temperature"])
    /\ InUnit(arg.v["temperature"], 0, 20)
TemperatureOut ==
    Supplied("temperature") /\ JsonNumber(arg.v["temperature"])
    /\ ~InUnit(arg.v["temperature"], 0, 20)
MaxTokensIn ==
    Supplied("max_tokens") /\ JsonInteger(arg.v["max_tokens"])
    /\ arg.v["max_tokens"].v \in 1..8192
MaxTokensOut ==
    Supplied("max_tokens") /\ JsonInteger(arg.v["max_tokens"])
    /\ arg.v["max_tokens"].v \notin 1..8192

\* C22: in a request whose other fields are valid, a supplied temperature in
\* [0, 2] and a supplied max_tokens in [1, 8192] (bounds included) are accepted
\* and returned unchanged; a max_tokens that is 0, negative or above 8192 is
\* rejected with the max_tokens error, and a temperature outside [0, 2] with
\* the temperature error.
C22_BoundsInclusive ==
    (Validated /\ OtherFieldsValid)
    => /\ (/\ TemperatureIn \/ ~Supplied("temperature")
           /\ MaxTokensIn \/ ~Supplied("max_tokens"))
          => /\ ret.ok
             /\ TemperatureIn => ret.val.v["temperature"] = arg.v["temperature"]
             /\ MaxTokensIn => ret.val.v["max_tokens"] = arg.v["max_tokens"]
       /\ MaxTokensOut
          => /\ ~ret.ok /\ ret.exc = "ValidationError"
             /\ ret.msg = "max_tokens must be a positive integer <= 8192"
       /\ (TemperatureOut /\ (MaxTokensIn \/ ~Supplied("max_tokens")))
          => /\ ~ret.ok /\ ret.exc = "ValidationError"
             /\ ret.msg = "temperature must be between 0.0 and 2.0"
C22_Witness ==
    /\ Validated
    /\ OtherFieldsValid
    /\ Supplied("temperature") /\ arg.v["temperature"] = JInt(2)
    /\ Supplied("max_tokens") /\ arg.v["max_tokens"] = JInt(8192)
    /\ Supplied("top_p") /\ Supplied("stream") /\ Supplied("model")
    /\ ret.ok
    /\ ret.val.v["temperature"] = JInt(2)
    /\ ret.val.v["max_tokens"] = JInt(8192)

\* C23: validation is idempotent: validating an accepted result again
\* succeeds and returns that same result, field for field.
C23_Idempotent ==
    fn = "revalidate" => (ret.ok /\ ret.val = arg)
C23_Witness ==
    /\ fn = "revalidate"
    /\ ret.ok
    /\ ret.val = arg
    /\ arg.v["model"] = JStr("local-model")
    /\ arg.v["temperature"] = JFloat(7)
    /\ arg.v["max_tokens"] = JInt(512)
    /\ Len(arg.v["messages"].v) = 3
    /\ arg.v["messages"].v[3] = JDict([role |-> JStr("tool"), content |-> JStr("42")])

\* The contract's field order and, per field, whether arg violates it.
FieldOrder == <<"messages", "model", "max_tokens", "temperature", "top_p", "stream">>
Violates(field) ==
    CASE field = "messages" ->
            \/ ArgMessages.t # "list"
            \/ Len(ArgMessages.v) = 0
            \/ \E i \in 1..Len(ArgMessages.v) : Offending(ArgMessages.v[i])
      [] field = "model" -> Given("model") /\ arg.v["model"].t # "str"
      [] field = "max_tokens" ->
            Given("max_tokens")
            /\ ~(JsonInteger(arg.v["max_tokens"]) /\ arg.v["max_tokens"].v \in 1..8192)
      [] field = "temperature" ->
            Given("temperature")
            /\ ~(JsonNumber(arg.v["temperature"]) /\ InUnit(arg.v["temperature"], 0, 20))
      [] field = "top_p" ->
            Given("top_p") /\ ~(JsonNumber(arg.v["top_p"]) /\ InUnit(arg.v["top_p"], 0, 10))
      [] field = "stream" -> Given("stream") /\ arg.v["stream"].t # "bool"
\* the field an error text is about
ErrorField(msg) ==
    IF \/ msg = "messages must be a non-empty array"
       \/ \E k \in 0..MaxMessages : NamesIndex(msg, k)
    THEN "messages"
    ELSE CASE msg = "model must be a string" -> "model"
           [] msg = "max_tokens must be a positive integer <= 8192" -> "max_tokens"
           [] msg = "temperature must be between 0.0 and 2.0" -> "temperature"
           [] msg = "top_p must be between 0 and 1" -> "top_p"
           [] msg = "stream must be a boolean" -> "stream"
           [] OTHER -> ""

\* C24: when arg violates the contract in two or more fields,
\* validate_chat_request raises a ValidationError whose text is about exactly
\* one field: the first violated one in the order messages, model, max_tokens,
\* temperature, top_p, stream.
C24_FirstViolatedFieldNamed ==
    LET violated == {i \in 1..Len(FieldOrder) : Violates(FieldOrder[i])}
    IN  (Validated /\ Cardinality(violated) >= 2)
        => /\ ~ret.ok
           /\ ret.exc = "ValidationError"
           /\ ErrorField(ret.msg) = FieldOrder[CHOOSE i \in violated : \A j \in violated : i <= j]

\* C26: for every validated request, redact_for_logs returns a record with as
\* many message entries as the request has messages; entry i holds exactly
\* role (the role of message i) and content_length (the number of characters
\* of content i), and no value of any entry is the content text of a message.
C26_RedactionKeepsLengthsOnly ==
    fn = "redact_for_logs"
    => LET original == arg.v["messages"].v
           entries == ret.val.messages
       IN  /\ Len(entries) = Len(original)
           /\ \A i \in 1..Len(entries) :
                 /\ DOMAIN entries[i] = {"role", "content_length"}
                 /\ entries[i].role = original[i].v["role"]
                 /\ entries[i].content_length = JInt(Len(original[i].v["content"].v))
                 /\ \A j \in 1..Len(original) :
                       /\ entries[i].role # original[j].v["content"]
                       /\ entries[i].content_length # original[j].v["content"]
C26_Witness ==
    /\ fn = "redact_for_logs"
    /\ Len(arg.v["messages"].v) = 3
    /\ arg.v["messages"].v[1].v["content"] = JStr("Be brief")
    /\ arg.v["messages"].v[2].v["content"] = JStr("Hello")
    /\ arg.v["messages"].v[3].v["content"] = JStr("42")
    /\ ret.val.messages[1] = [role |-> JStr("system"), content_length |-> JInt(8)]
    /\ ret.val.messages[2] = [role |-> JStr("user"), content_length |-> JInt(5)]
    /\ ret.val.messages[3] = [role |-> JStr("tool"), content_length |-> JInt(2)]

\* The decoded request object the caller sent to the ingress in use.
CallerPayload == IF mode = "server" THEN request.body.value ELSE stdin.data.value
ChatCompletionsPath == "/v1/chat/completions"

\* C25: once a request is accepted, the validated messages have the length of
\* the caller's messages and the same role and content at every index, and
\* the body of every upstream attempt carries exactly that sequence.
C25_MessagesPassedThrough ==
    validated # JNull
    => LET original == CallerPayload.v["messages"].v
           kept == validated.v["messages"].v
       IN  /\ Len(kept) = Len(original)
           /\ \A i \in 1..Len(kept) :
                 /\ Get(kept[i].v, "role") = original[i].v["role"]
                 /\ Get(kept[i].v, "content") = original[i].v["content"]
           /\ Len(sent) = Len(calls)
           /\ \A k \in 1..Len(sent) :
                 /\ sent[k].body.wellformed
                 /\ sent[k].body.value.v["messages"] = validated.v["messages"]
                 /\ Len(sent[k].body.value.v["messages"].v) = Len(original)
C25_Witness ==
    /\ Len(sent) = 3
    /\ CallerPayload.v["messages"] = JList(<<SystemMsg, UserHello>>)
    /\ sent[3].body.value.v["messages"].v[1].v["content"] = JStr("Be brief")
    /\ sent[3].body.value.v["messages"].v[2].v["content"] = JStr("Hello")
    /\ calls[1].kind = "http_error"
    /\ calls[2].kind = "url_error"

\* C30: every upstream attempt hands urlopen one POST request for the upstream
\* base (without trailing slashes) followed by /v1/chat/completions, with
\* Content-Type: application/json, with Authorization: Bearer <key> exactly
\* when the configured API key is a non-empty text, and with the validated
\* request serialised as JSON for its body.
C30_OutboundRequestShape ==
    /\ Len(sent) = Len(calls)
    /\ \A k \in 1..Len(sent) :
          /\ sent[k].method = "POST"
          /\ sent[k].url = config.lm_studio_base.stem \o ChatCompletionsPath
          /\ "Content-Type" \in DOMAIN sent[k].headers
          /\ sent[k].headers["Content-Type"] = "application/json"
          /\ DOMAIN sent[k].headers \subseteq {"Content-Type", "Authorization"}
          /\ "Authorization" \in DOMAIN sent[k].headers
             <=> (config.api_key.t = "str" /\ config.api_key.v # "")
          /\ "Authorization" \in DOMAIN sent[k].headers
             => sent[k].headers["Authorization"] = "Bearer " \o config.api_key.v
          /\ sent[k].body = JsonBytes(validated)
C30_Witness ==
    /\ Len(sent) = 2
    /\ config.api_key = JStr("sk-local")
    /\ sent[1].url = sent[2].url
    /\ sent[2].url = "http://lm.local:1234/v1/chat/completions"
    /\ sent[2].headers["Authorization"] = "Bearer sk-local"
    /\ result.kind = "return"

\* The texts a log record must not carry: the content of each of the caller's
\* messages and the configured API key.
SecretTexts ==
    (IF CallerPayload.t = "dict" /\ Get(CallerPayload.v, "messages").t = "list"
     THEN LET messages == CallerPayload.v["messages"].v
          IN  {Get(messages[i].v, "content").v :
                  i \in {j \in 1..Len(messages) :
                            /\ messages[j].t = "dict"
                            /\ Get(messages[j].v, "content").t = "str"
                            /\ Get(messages[j].v, "content").v # ""}}
     ELSE {})
    \cup (IF config.api_key.t = "str" THEN {config.api_key.v} ELSE {})
NoSecretIn(record) ==
    \A f \in DOMAIN record.fields :
        LET x == record.fields[f]
        IN  CASE x.t = "str" -> x.v \notin SecretTexts
              [] x.t = "dict" ->
                    /\ x.v.model \notin {JStr(t) : t \in SecretTexts}
                    /\ \A i \in 1..Len(x.v.messages) :
                          /\ DOMAIN x.v.messages[i] = {"role", "content_length"}
                          /\ x.v.messages[i].role.v \notin SecretTexts
                          /\ x.v.messages[i].content_length.t = "int"
              [] OTHER -> TRUE

\* C27: on every path of both ingresses no log record carries the content
\* text of one of the caller's messages or the configured API key, and the run
\* whose message contents are replaced by other texts of the same lengths
\* (same upstream outcomes, any API key) logs the very same records.
C27_LogsCarryNoSecrets ==
    /\ twin_logs = logs
    /\ \A i \in 1..Len(logs) : NoSecretIn(logs[i])
C27_Witness ==
    /\ mode = "stdin"
    /\ config.api_key = JStr("sk-local")
    /\ Len(logs) = 2
    /\ logs[1].event = "stdin.request"
    /\ logs[1].fields["payload"].v.messages[1].content_length = JInt(8)
    /\ logs[2].event = "stdin.connection_error"
    /\ twin_logs = logs
    /\ "Hello" \in SecretTexts

\* The valid range of each integer option.
InRangeOf(option, value) ==
    CASE option = "listen_port" -> value \in 0..65535
      [] option = "timeout" -> value >= 0
      [] option = "retries" -> value >= 0
IntegerOptions ==
    [listen_port |-> "LOCAL_AI_LISTEN_PORT", timeout |-> "LOCAL_AI_TIMEOUT",
     retries |-> "LOCAL_AI_RETRIES"]
Started == fn = "main"

\* C28: when an integer option is taken from the environment (its flag is not
\* given, its variable is set and not blank) and the text is not an integer or
\* is out of the option's range, main() ends in a configuration error and no
\* ProxyConfig is built.
C28_BadEnvIntegerIsFatal ==
    (/\ Started
     /\ \E o \in DOMAIN IntegerOptions :
           LET e == arg.env[IntegerOptions[o]]
           IN  /\ ~arg.argv[o].set
               /\ NonBlank(e)
               /\ (~e.numeric \/ ~InRangeOf(o, e.value)))
    => (~ret.ok /\ ret.exc = "SystemExit")

\* C29: when startup succeeds, each of the six options resolves to the flag's
\* value if the flag is given, otherwise to the environment variable's value
\* if it is set to a non-blank text, otherwise to the compiled-in default
\* (127.0.0.1, 8081, http://localhost:1234, 30, 2, no API key).
Chosen(flag, env, default) ==
    IF flag.set THEN flag ELSE IF NonBlank(env) THEN env ELSE default
MentionsInvalidJsonFromLmStudio(msg) ==
    \E before \in {"", "Invalid response from LM Studio: "},
       after \in {"", ": Empty request body", ": Invalid JSON: Expecting value",
                  ": Expecting value", ": JSON root must be an object"} :
        msg = before \o "Invalid JSON from LM Studio" \o after

\* C32: when every attempt of a call (retries >= 0) is answered 200 with a
\* truncated or otherwise invalid JSON body, the call makes retries+1 attempts
\* with retries backoffs and raises ConnectionError with a message containing
\* "Invalid JSON from LM Studio".
C32_InvalidJsonMessage ==
    (/\ CallEnded
     /\ config.retries >= 0
     /\ \A i \in 1..Len(calls) : calls[i].code = 200 /\ MalformedBody(calls[i]))
    => /\ Len(calls) = config.retries + 1
       /\ Len(sleeps) = config.retries
       /\ RaisedConnectionError
       /\ MentionsInvalidJsonFromLmStudio(result.msg)

\* C36: when call_lm_studio returns or raises (retries >= 0) the number of
\* backoffs is the number of attempts minus one, and a backoff is made only
\* right after an attempt that is not the last permitted one and that neither
\* succeeded nor failed terminally, with another attempt to follow.
C36_BackoffOnlyBetweenAttempts ==
    /\ []((CallEnded /\ config.retries >= 0) => Len(sleeps) = Len(calls) - 1)
    /\ [][sleeps' # sleeps
          => /\ Len(sleeps') = Len(sleeps) + 1
             /\ Len(calls') = Len(calls) + 1
             /\ Len(sleeps') = Len(calls')
             /\ Len(calls') <= config.retries
             /\ LET out == calls'[Len(calls')]
                IN  ~WellFormed(out) /\ ~AnsweredTerminal(out)
             /\ result' = Pending
             /\ pc' = "calling" /\ InRange(attempt', config.retries)]_vars
C36_Witness ==
    /\ CallEnded
    /\ config.retries = 2
    /\ Len(calls) = 3
    /\ sleeps = <<0, 1>>
    /\ Answered5xx(calls[1]) /\ calls[2].kind = "url_error"
    /\ result.kind = "return"

\* C38: call_lm_studio raises ConnectionError, and do_POST answers 502 or
\* handle_stdin returns 2, only after at least one upstream attempt was made.
C38_ConnectionErrorAfterAttempt ==
    (RaisedConnectionError \/ response.status = 502 \/ exit_code = 2) => Len(calls) >= 1

\* C40: a model the caller supplies as a string is the model of the validated
\* request; "local-model" stands in only when no model is supplied (absent or
\* null).
C40_SuppliedModelKept ==
    (Validated /\ ret.ok)
    => /\ (Given("model") /\ arg.v["model"].t = "str") => ret.val.v["model"] = arg.v["model"]
       /\ (ret.val.v["model"] = JStr("local-model") /\ Given("model"))
            => arg.v["model"] = JStr("local-model")

\* C35: every attempt of a call hands urlopen a Request object of its own,
\* and the requests of all attempts have the same target URL, headers and
\* body: the one built from the configuration and the validated payload.
C35_FreshIdenticalRequests ==
    /\ Len(sent) = Len(calls)
    /\ \A i \in 1..Len(sent) :
          /\ sent[i].url = build_request(config, validated).url
          /\ sent[i].headers = build_request(config, validated).headers
          /\ sent[i].body = build_request(config, validated).body
          /\ \A j \in 1..Len(sent) :
                /\ i # j => sent[i].object # sent[j].object
                /\ sent[i].url = sent[j].url
                /\ sent[i].headers = sent[j].headers
                /\ sent[i].body = sent[j].body
C35_Witness ==
    /\ Len(sent) = 3
    /\ config.api_key = JStr("sk-local")
    /\ sent[1].object # sent[3].object
    /\ sent[1].headers = sent[3].headers
    /\ sent[1].body = sent[3].body
    /\ Len(validated.v["messages"].v) = 2

\* C37: the k-th backoff of a call (k = 0, 1, ...) follows failed attempt k
\* and sleeps 0.4 s * 2^k plus a jitter within [0.05 s, 0.2 s]: the base
\* doubles from each backoff to the next and every delay exceeds the base of
\* the backoff before it. Times are in milliseconds.
C37_BackoffDoubles ==
    /\ Len(delays) = Len(sleeps)
    /\ \A i \in 1..Len(delays) :
          /\ sleeps[i] = i - 1
          /\ delays[i] - 400 * 2^(i - 1) \in 50..200
          /\ i > 1 => /\ delays[i] > 400 * 2^(i - 2)
                      /\ delays[i] - delays[i - 1] \in (400 * 2^(i - 2) - 150)..(400 * 2^(i - 2) + 150)
C37_Witness ==
    /\ Len(delays) = 3
    /\ delays[1] = 450
    /\ delays[2] = 1000
    /\ delays[3] = 1725
    /\ CallEnded

\* What call_lm_studio does when it is the only call the process ever makes
\* and the upstream answers its attempts with `outs`, from attempt k on.
RECURSIVE CallAlone(_, _, _, _)
CallAlone(cfg, outs, k, last) ==
    IF ~InRange(k, cfg.retries)
    THEN [res |-> Raised("ConnectionError",
                         IF Truthy(last) THEN last.v ELSE "Unknown LM Studio error"),
          attempts |-> k, backoffs |-> k]
    ELSE IF k + 1 > Len(outs) THEN [res |-> Pending, attempts |-> k, backoffs |-> k]
    ELSE LET c == Classify(outs[k + 1])
         IN  CASE c.next = "return" ->
                    [res |-> Returned(c.status, c.data), attempts |-> k + 1, backoffs |-> k]
               [] c.next = "escape" ->
                    [res |-> Raised(c.exc, c.text), attempts |-> k + 1, backoffs |-> k]
               [] c.next = "stop" ->
                    [res |-> Raised("ConnectionError", c.text), attempts |-> k + 1, backoffs |-> k]
               [] c.next = "retry" ->
                    IF IsLastAttempt(k, cfg.retries)
                    THEN [res |-> Raised("ConnectionError", c.text), attempts |-> k + 1,
                          backoffs |-> k]
                    ELSE CallAlone(cfg, outs, k + 1, JStr(c.text))
NothingDone ==
    [logs |-> <<>>, response |-> NoResponse, stdout |-> <<>>, exit_code |-> NotReturned,
     escaped |-> NoException, trace |-> <<>>]
\* The answer to `req` when the server serves nothing else.
ServedAlone(cfg, req, outs) ==
    IF req.method = "GET"
    THEN [response |-> GetResponse(req.path), escaped |-> NoException, attempts |-> 0,
          backoffs |-> 0]
    ELSE IF req.path # ChatCompletionsPath
    THEN [response |-> SendJson(404, JDict([error |-> JStr("not_found")])),
          escaped |-> NoException, attempts |-> 0, backoffs |-> 0]
    ELSE LET incoming == ReadJson(req)
             checked == IF incoming.ok THEN validate_chat_request(incoming.val) ELSE incoming
             call == CallAlone(cfg, outs, 0, JNull)
             failed == PostExcept(NothingDone, checked.exc, checked.msg)
             broken == PostExcept(NothingDone, call.res.exc, call.res.msg)
         IN  IF ~checked.ok
             THEN [response |-> failed.response, escaped |-> failed.escaped, attempts |-> 0,
                   backoffs |-> 0]
             ELSE IF call.res.kind = "return"
             THEN [response |-> SendJson(call.res.status, call.res.data),
                   escaped |-> NoException, attempts |-> call.attempts,
                   backoffs |-> call.backoffs]
             ELSE [response |-> broken.response, escaped |-> broken.escaped,
                   attempts |-> call.attempts, backoffs |-> call.backoffs]

\* C33: with several requests at the server, every request is handled as if
\* it were the only one: its response, its number of attempts and its number
\* of backoffs are those its own body and the upstream outcomes of its own
\* attempts give, whatever was handled before it and whatever is waiting; the
\* configuration never changes and a finished request's record is never
\* touched again.
C33_RequestsIndependent ==
    /\ [](\A i \in 1..Len(served) :
            LET alone == ServedAlone(config, served[i].request, served[i].calls)
            IN  /\ served[i].request = backlog[i]
                /\ served[i].response = alone.response
                /\ served[i].escaped = alone.escaped
                /\ Len(served[i].calls) = alone.attempts
                /\ Len(served[i].sleeps) = alone.backoffs)
    /\ [][/\ config' = config
          /\ Len(served') >= Len(served)
          /\ \A i \in 1..Len(served) : served'[i] = served[i]]_vars
C33_Witness ==
    /\ config.retries = 1
    /\ Len(backlog) = 2
    /\ Len(served) = 2
    /\ served[1].request.method = "POST" /\ served[2].request.method = "POST"
    /\ Len(served[1].calls) = 2
    /\ served[1].response.status = 502
    /\ Len(served[2].calls) = 2
    /\ Len(served[2].sleeps) = 1
    /\ served[2].response.status = 200

\* Parsing and validating `raw` raises ValidationError.
ValidationRaised(raw) ==
    LET parsed == parse_json_bytes(raw)
        checked == IF parsed.ok THEN validate_chat_request(parsed.val) ELSE parsed
    IN  ~checked.ok /\ IsSubclass(checked.exc, "ValidationError")
CallRaisedConnectionError == result.kind = "raise" /\ IsSubclass(result.exc, "ConnectionError")

\* C31: no exception of log_json leaves a handler, and whether or not the log
\* record could be written, a request that fails validation is answered 400
\* (pipe mode: one error line and exit status 1) and a call that ends in
\* ConnectionError is answered 502 (pipe mode: one error line and exit
\* status 2).
C31_LoggingNeverPreventsOutcome ==
    pc = "done"
    => /\ escaped # StderrFailure
       /\ (/\ mode = "server"
           /\ request.method = "POST" /\ request.path = ChatCompletionsPath
           /\ request.content_length # "abc"
           /\ ValidationRaised(IF request.content_length = "absent" THEN EmptyBytes
                               ELSE request.body))
          => response.status = 400
       /\ (mode = "server" /\ CallRaisedConnectionError) => response.status = 502
       /\ (mode = "stdin" /\ ~TooLarge(stdin.size) /\ ValidationRaised(stdin.data))
          => (exit_code = 1 /\ Len(stdout) = 1)
       /\ (mode = "stdin" /\ CallRaisedConnectionError)
          => (exit_code = 2 /\ Len(stdout) = 1)

\* The events of a handler's trace.
RequestLogged(t) == t \in {"log proxy.request", "log stdin.request"}
OutcomeLogged(t) ==
    t \in {"log proxy.response", "log proxy.connection_error", "log stdin.response",
           "log stdin.connection_error"}
Answered(t) == t \in {"send", "write"}
ChatHandled ==
    /\ pc = "done"
    /\ \/ mode = "stdin"
       \/ mode = "server" /\ request.method = "POST" /\ request.path = ChatCompletionsPath
PassedValidation == validated # JNull

\* C34: for a request that passes validation, on both transports, the handler
\* logs the redacted request, then makes the first upstream attempt, then logs
\* the upstream outcome, then hands the response back (HTTP response or stdout
\* line); a request that fails validation never gets a redacted request record.
C34_EventOrder ==
    /\ (ChatHandled /\ PassedValidation)
       => \E a, b, c, d \in 1..Len(trace) :
             /\ a < b /\ b < c /\ c < d
             /\ RequestLogged(trace[a])
             /\ trace[b] = "urlopen" /\ \A x \in 1..(b - 1) : trace[x] # "urlopen"
             /\ OutcomeLogged(trace[c])
             /\ Answered(trace[d])
    /\ (ChatHandled /\ ~PassedValidation)
       => \A x \in 1..Len(trace) : ~RequestLogged(trace[x])

\* C39: the retry loop is bounded by the retry count, and every POST to
\* /v1/chat/completions whose handler has ended was answered with exactly one
\* response, every pipe-mode run that has ended produced its exit status.
C39_EndsWithOneResponse ==
    /\ Len(calls) <= Max(config.retries + 1, 0)
    /\ (pc = "done" /\ mode = "server" /\ request.method = "POST")
       => /\ response # NoResponse
          /\ Len(SelectSeq(trace, LAMBDA t : t = "send")) = 1
====
